---- MODULE Spec2Model ----
(***************************************************************************)
(* EVSE load balancer: the Coordinator's update cycle, the PowerAllocator  *)
(* with its per-charger ChargerState, and the charger and meter adapters   *)
(* as far as the core reads them.                                          *)
(*                                                                         *)
(* Python's Optional values are one-element sets: None is {} and a value x *)
(* is {x}, so "if x:" on an Optional dict reads "x # None".                *)
(* All amperes are integers.  The allocator's float expressions            *)
(* floor(deficit * (current / total)) and int(min(surplus * (potential /   *)
(* total), potential)) equal exact integer arithmetic except where the     *)
(* binary64 product falls just below an integer quotient; those operands   *)
(* are listed in CutRoundedBelow and IncreaseRoundedBelow.                 *)
(***************************************************************************)
EXTENDS Integers, FiniteSets, Sequences, TLC

VARIABLES
    now,                        \* the wall clock, in seconds
    config,                     \* config_entry: fuse size, phase count, options
    adapters,                   \* per charger id: what the charger adapter reports
    chargers,                   \* PowerAllocator._chargers: id -> ChargerState
    last_charger_update_time,   \* Coordinator._last_charger_update_time
    last_decrease_time,         \* Coordinator._last_decrease_time
    seen_can_charge,            \* can_charge() as the latest cycle that asked saw it
    cycle,                      \* what the update cycle that just ran called and wrote
    allocation,                 \* the direct calls of the Balancer, the Allocator
                                \* and a ChargerState
    balancer,                   \* the Balancer's window of excess samples per phase
    readings,                   \* the meter: the current (A) it reads on each of
                                \* its three phases, for the direct calls of the
                                \* Coordinator's sampling
    tasks                       \* the set_current_limit tasks the Coordinator created
                                \* that have not completed, and the one that
                                \* completed last

vars == <<now, config, adapters, chargers, last_charger_update_time,
          last_decrease_time, seen_can_charge, cycle, allocation, balancer,
          readings, tasks>>

----------------------------------------------------------------------------
(* Bounds of the model *)

\* largest current (A) a charger adapter reports as limit or maximum
MaxAmp == 2
\* the configured main fuse (A); chargers may be rated above it
FuseSize == 1
\* seconds of simulated time after the start of the run
MaxElapsed == 101
\* current_change_settle_time (s) of the charger adapters
SettleTime == 21
\* the wall clock (s) when the Coordinator is set up
StartTime == 30
\* successive direct calls of one operation
MaxCalls == 2
\* the largest limit (A) of a charger where household amperes are modelled
MaxCharge == 32
\* Balancer calls, one update cycle apart, that are followed
MaxTicks == 95
\* set_current_limit tasks in flight at one time
MaxTasks == 2

----------------------------------------------------------------------------
(* Program constants *)

EXECUTION_CYCLE_DELAY == 1
MIN_CHARGER_UPDATE_DELAY == 20
SecondsPerMinute == 60

Phase == {"L1", "L2", "L3"}
PhaseOrder == <<"L1", "L2", "L3">>

CONSERVATIVE == "conservative"
OPTIMISED == "optimised"

None == {}
Some(x) == {x}
Get(o) == CHOOSE x \in o : TRUE

Min(S) == CHOOSE x \in S : \A y \in S : x <= y
MinOf(a, b) == IF a <= b THEN a ELSE b
MaxOf(a, b) == IF a >= b THEN a ELSE b

RECURSIVE SumOver(_, _)
SumOver(f, S) ==
    IF S = {} THEN 0
    ELSE LET x == CHOOSE y \in S : TRUE IN f[x] + SumOver(f, S \ {x})

\* dict.fromkeys(Phase, a)
FromKeys(a) == [p \in Phase |-> a]

----------------------------------------------------------------------------
(* ChargerState (power_allocator.py) *)

\* ChargerState.__init__
NewChargerState ==
    [requested_current        |-> None,
     last_calculated_current  |-> None,
     last_applied_current     |-> None,
     last_update_time         |-> 0,
     manual_override_detected |-> FALSE,
     initialized              |-> FALSE,
     active_session           |-> FALSE]

\* get_current_limit with the last applied setpoint returned up to and
\* including the settle time
get_current_limit_through_settle(state, charger, t) ==
    IF t - state.last_update_time <= charger.settle
    THEN state.last_applied_current
    ELSE charger.limit

\* ChargerState.get_current_limit: the last applied setpoint while the
\* charger settles, the adapter's reading afterwards
get_current_limit(state, charger, t) ==
    IF t - state.last_update_time < charger.settle
    THEN state.last_applied_current
    ELSE charger.limit

\* initialize without the early return of an initialised state: the limit is
\* read again at every call
initialize_again(state, charger) ==
    IF charger.limit # None
    THEN [state EXCEPT !.requested_current = charger.limit,
                       !.last_applied_current = charger.limit,
                       !.active_session = charger.can_charge,
                       !.initialized = TRUE]
    ELSE state

\* ChargerState.initialize: the state after the call
initialize(state, charger) ==
    IF state.initialized THEN state
    ELSE IF charger.limit # None
         THEN [state EXCEPT !.requested_current = charger.limit,
                            !.last_applied_current = charger.limit,
                            !.active_session = charger.can_charge,
                            !.initialized = TRUE]
         ELSE state

\* ChargerState.detect_manual_override without the comparison with
\* last_applied_current: any reading other than requested_current overrides
detect_manual_override_any_difference(state, charger, t) ==
    LET current_setting == get_current_limit(state, charger, t)
        is_charging == charger.can_charge
    IN  IF current_setting = None THEN state
        ELSE IF is_charging /\ ~state.active_session
        THEN [(IF charger.max_limit # None
               THEN [state EXCEPT !.requested_current = charger.max_limit]
               ELSE state)
              EXCEPT !.active_session = is_charging]
        ELSE IF /\ state.last_applied_current # None
                /\ current_setting # state.requested_current
        THEN [state EXCEPT !.requested_current = current_setting,
                           !.manual_override_detected = TRUE,
                           !.active_session = is_charging]
        ELSE [state EXCEPT !.active_session = is_charging]

\* ChargerState.detect_manual_override: the state after the call
detect_manual_override(state, charger, t) ==
    LET current_setting == get_current_limit(state, charger, t)
        is_charging == charger.can_charge
    IN  IF current_setting = None THEN state
        ELSE IF is_charging /\ ~state.active_session
        THEN [(IF charger.max_limit # None
               THEN [state EXCEPT !.requested_current = charger.max_limit]
               ELSE state)
              EXCEPT !.active_session = is_charging]
        ELSE IF /\ state.last_applied_current # None
                /\ \E p \in Phase :
                      Get(current_setting)[p] # Get(state.last_applied_current)[p]
                /\ current_setting # state.requested_current
        THEN [state EXCEPT !.requested_current = current_setting,
                           !.manual_override_detected = TRUE,
                           !.active_session = is_charging]
        ELSE [state EXCEPT !.active_session = is_charging]

----------------------------------------------------------------------------
(* WebastoUniteCharger (chargers/webasto_unite_charger.py) *)

\* set_current_limit writing the value of L1, or of the first phase given
webasto_set_current_limit_first(limit) ==
    limit[CHOOSE p \in DOMAIN limit : \A q \in DOMAIN limit :
              \E i, j \in 1..3 : PhaseOrder[i] = p /\ PhaseOrder[j] = q /\ i <= j]

\* WebastoUniteCharger.set_current_limit: the value of the number.set_value
\* service call
webasto_set_current_limit(limit) == Min({limit[p] : p \in DOMAIN limit})

----------------------------------------------------------------------------
(* PowerAllocator (power_allocator.py) *)

\* PowerAllocator._active_chargers: the ids of the chargers that can charge
active_chargers(chs, ads) == {c \in DOMAIN chs : ads[c].can_charge}

\* should_monitor counting every added charger
should_monitor_any_added(chs, ads) == Cardinality(DOMAIN chs) > 0

\* PowerAllocator.should_monitor
should_monitor(chs, ads) == Cardinality(active_chargers(chs, ads)) > 0

\* the phases of a per-phase dict keyed by the first phases of PhaseOrder,
\* in the dict's iteration order
KeysInOrder(d) == [i \in 1..Cardinality(DOMAIN d) |-> PhaseOrder[i]]

\* the proportional cut rounded toward zero: int() in place of floor()
ProportionalCutTruncated(deficit, current, total) ==
    -(((-deficit) * current) \div total)

\* the <<deficit, current, total>> with deficit in -40..-1, current in 0..40
\* and total in 1..80 for which the binary64 product
\* deficit * (current / total) falls just below the exact quotient, an integer
CutRoundedBelow ==
    {
     <<-25, 7, 25>>, <<-25, 14, 25>>, <<-29, 15, 29>>, <<-35, 29, 35>>,
     <<-38, 21, 38>>, <<-39, 25, 39>>, <<-25, 14, 50>>, <<-25, 28, 50>>,
     <<-29, 30, 58>>, <<-25, 21, 75>>}

\* the proportional cut of one charger: proportion = current / total_current,
\* cut = floor(deficit * proportion), in binary64 arithmetic
ProportionalCut(deficit, current, total) ==
    IF <<deficit, current, total>> \in CutRoundedBelow
    THEN ((deficit * current) \div total) - 1
    ELSE (deficit * current) \div total

\* PowerAllocator._distribute_cuts: result after the cuts of one phase
distribute_cuts(phase, deficit, result, chs, ads, t) ==
    LET known == {c \in active_chargers(chs, ads) :
                     get_current_limit(chs[c], ads[c], t) # None}
        setting(c) == Get(get_current_limit(chs[c], ads[c], t))
        current == [c \in known |-> setting(c)[phase]]
        total_current == SumOver(current, known)
    IN  IF total_current = 0 THEN result
        ELSE [c \in (DOMAIN result) \cup known |->
                IF c \in known
                THEN LET base == IF c \in DOMAIN result THEN result[c]
                                 ELSE setting(c)
                         cut == ProportionalCut(deficit, current[c], total_current)
                     IN  [base EXCEPT ![phase] = MaxOf(0, setting(c)[phase] + cut)]
                ELSE result[c]]

\* the <<surplus, potential, total>> with surplus and potential in 1..40 and
\* total in 1..80 for which the binary64 product
\* surplus * (potential / total) falls just below the exact quotient, an integer
IncreaseRoundedBelow ==
    {
     <<22, 15, 22>>, <<23, 13, 23>>, <<26, 15, 26>>, <<39, 31, 39>>,
     <<22, 30, 44>>, <<23, 26, 46>>, <<26, 30, 52>>, <<23, 39, 69>>}

\* the proportional increase of one charger: proportion = potential /
\* total_potential, int(min(surplus * proportion, potential)), in binary64
ProportionalIncrease(surplus, potential, total) ==
    IF <<surplus, potential, total>> \in IncreaseRoundedBelow
    THEN MinOf(((surplus * potential) \div total) - 1, potential)
    ELSE MinOf((surplus * potential) \div total, potential)

\* PowerAllocator._distribute_increases: result after the increases of one phase
distribute_increases(phase, surplus, result, chs, ads, t) ==
    LET setting(c) == Get(get_current_limit(chs[c], ads[c], t))
        raisable == {c \in active_chargers(chs, ads) :
                       /\ get_current_limit(chs[c], ads[c], t) # None
                       /\ chs[c].requested_current # None
                       /\ Get(chs[c].requested_current)[phase] > setting(c)[phase]}
        potential == [c \in raisable |->
                        Get(chs[c].requested_current)[phase] - setting(c)[phase]]
        total_potential == SumOver(potential, raisable)
    IN  IF total_potential = 0 THEN result
        ELSE [c \in (DOMAIN result) \cup raisable |->
                IF c \in raisable
                THEN LET base == IF c \in DOMAIN result THEN result[c]
                                 ELSE setting(c)
                         increase == ProportionalIncrease(surplus, potential[c],
                                                          total_potential)
                     IN  [base EXCEPT ![phase] = setting(c)[phase] + increase]
                ELSE result[c]]

\* _allocate_current without the flattening of a synced charger's currents
flatten_synced_skipped(charger_currents, processed_phases) == charger_currents

\* the flattening taking the minimum over every phase of the charger's
\* currents, whatever phases were processed
flatten_synced_every_phase(charger_currents, processed_phases) ==
    FromKeys(Min({charger_currents[p] : p \in Phase}))

\* the flattening of a synced charger's currents in _allocate_current: the
\* minimum over the phases of available_currents, on every phase
flatten_synced(charger_currents, processed_phases) ==
    LET processed_currents == {charger_currents[p] : p \in processed_phases}
    IN  IF processed_currents # {} THEN FromKeys(Min(processed_currents))
        ELSE charger_currents

\* the per-phase loop of _allocate_current: result after the cuts and the
\* increases of every phase of available_currents
distribute_phases(available_currents, chs, ads, t) ==
    LET keys == KeysInOrder(available_currents)
        after[i \in 0..Len(keys)] ==
            IF i = 0 THEN [c \in {} |-> FromKeys(0)]
            ELSE LET phase == keys[i]
                     available_current == available_currents[phase]
                 IN  IF available_current < 0
                     THEN distribute_cuts(phase, available_current, after[i - 1],
                                          chs, ads, t)
                     ELSE IF available_current > 0
                     THEN distribute_increases(phase, available_current,
                                               after[i - 1], chs, ads, t)
                     ELSE after[i - 1]
    IN  after[Len(keys)]

\* PowerAllocator._allocate_current
allocate_current(available_currents, chs, ads, t) ==
    LET result == distribute_phases(available_currents, chs, ads, t)
    IN  [c \in DOMAIN result |->
            IF ads[c].synced
            THEN flatten_synced(result[c], DOMAIN available_currents)
            ELSE result[c]]

\* update_allocation without the filter: every allocated charger is changed
has_changes_always(new_limits, current_setting, synced) == TRUE

\* the "has_changes" test of update_allocation
has_changes(new_limits, current_setting, synced) ==
    IF synced
    THEN Min({new_limits[p] : p \in Phase}) # Min({current_setting[p] : p \in Phase})
    ELSE \E p \in Phase : new_limits[p] # current_setting[p]

\* update_allocation without the early return when no charger can charge
update_allocation_without_return(available_currents, chs, ads, t) ==
    LET checked == [c \in DOMAIN chs |->
                      LET state == initialize(chs[c], ads[c])
                      IN  IF ~state.initialized THEN state
                          ELSE detect_manual_override(state, ads[c], t)]
        allocated_currents == allocate_current(available_currents, checked, ads, t)
        changed == {c \in DOMAIN allocated_currents :
                      /\ get_current_limit(checked[c], ads[c], t) # None
                      /\ has_changes(allocated_currents[c],
                                     Get(get_current_limit(checked[c], ads[c], t)),
                                     ads[c].synced)}
    IN  [result   |-> [c \in changed |-> allocated_currents[c]],
         chargers |-> [c \in DOMAIN chs |->
                         IF c \in changed
                         THEN [checked[c] EXCEPT
                                 !.last_calculated_current = Some(allocated_currents[c]),
                                 !.manual_override_detected = FALSE]
                         ELSE checked[c]]]

\* PowerAllocator.update_allocation: the returned dict and the ChargerStates
\* after the call
update_allocation(available_currents, chs, ads, t) ==
    IF active_chargers(chs, ads) = {}
    THEN [result |-> [c \in {} |-> FromKeys(0)], chargers |-> chs]
    ELSE
    LET checked == [c \in DOMAIN chs |->
                      LET state == initialize(chs[c], ads[c])
                      IN  IF ~state.initialized THEN state
                          ELSE detect_manual_override(state, ads[c], t)]
        allocated_currents == allocate_current(available_currents, checked, ads, t)
        changed == {c \in DOMAIN allocated_currents :
                      /\ get_current_limit(checked[c], ads[c], t) # None
                      /\ has_changes(allocated_currents[c],
                                     Get(get_current_limit(checked[c], ads[c], t)),
                                     ads[c].synced)}
    IN  [result   |-> [c \in changed |-> allocated_currents[c]],
         chargers |-> [c \in DOMAIN chs |->
                         IF c \in changed
                         THEN [checked[c] EXCEPT
                                 !.last_calculated_current = Some(allocated_currents[c]),
                                 !.manual_override_detected = FALSE]
                         ELSE checked[c]]]

\* update_applied_current recording the setpoint without its time
update_applied_current_untimed(chs, charger_id, applied_current, timestamp) ==
    [chs EXCEPT ![charger_id] =
        [@ EXCEPT !.last_applied_current = Some(applied_current)]]

\* PowerAllocator.update_applied_current: the ChargerStates after the call
update_applied_current(chs, charger_id, applied_current, timestamp) ==
    [chs EXCEPT ![charger_id] =
        [@ EXCEPT !.last_applied_current = Some(applied_current),
                  !.last_update_time = timestamp]]

\* the call of update_applied_current as its caller sees it: whether the
\* warning was logged, whether the lookup self._chargers[charger_id] raised
\* KeyError, and the ChargerStates after the call
update_applied_current_outcome(chs, charger_id, applied_current, timestamp) ==
    [warned   |-> charger_id \notin DOMAIN chs,
     raised   |-> charger_id \notin DOMAIN chs,
     chargers |-> IF charger_id \in DOMAIN chs
                  THEN update_applied_current(chs, charger_id, applied_current,
                                              timestamp)
                  ELSE chs]

----------------------------------------------------------------------------
(* Balancer (balancers/optimised_load_balancer.py), as section 4.3 of the  *)
(* specification describes it                                              *)

\* the Balancer as constructed: an empty window of samples for every phase
\* of max_limits
NewBalancer(cfg) ==
    [p \in {PhaseOrder[i] : i \in 1..cfg.phase_count} |-> <<>>]

\* compute_availability tolerating a deficit in every mode
compute_availability_any_mode(mode, available_currents, tolerated) ==
    [p \in DOMAIN available_currents |->
        IF available_currents[p] < 0 /\ p \in tolerated THEN 0
        ELSE available_currents[p]]

\* compute_availability: in conservative mode the input; in optimised mode
\* a deficit is surfaced as 0 on the phases whose windowed excess is still
\* within the threshold (tolerated), and as-is on the others
compute_availability(mode, available_currents, tolerated) ==
    IF mode = CONSERVATIVE THEN available_currents
    ELSE [p \in DOMAIN available_currents |->
            IF available_currents[p] < 0 /\ p \in tolerated THEN 0
            ELSE available_currents[p]]

\* the length (s) of the Balancer's sliding window
WindowSeconds == 60

\* the excess sample of a phase: max(0, -available[p])
excess(available) == MaxOf(0, 0 - available)

\* the samples that are still inside the window at time t
evict(samples, t) == SelectSeq(samples, LAMBDA s : s.time > t - WindowSeconds)

\* the windows after the samples of a call at time t have been appended and
\* the old samples evicted
record_samples(windows, available_currents, t) ==
    [p \in DOMAIN windows |->
        Append(evict(windows[p], t),
               [time |-> t, excess |-> excess(available_currents[p])])]

\* the excess integrated over the window (A*s): every sample stands for one
\* update cycle
integrated_excess(samples) ==
    SumOver([i \in DOMAIN samples |-> samples[i].excess * EXECUTION_CYCLE_DELAY],
            DOMAIN samples)

\* the threshold of a phase: a sustained overload at max_limits[p] + 1 for
\* the full window
phase_threshold(max_limit) == ((max_limit + 1) - max_limit) * WindowSeconds

\* the phases tolerated as soon as the integral reaches the threshold
tolerated_phases_below(windows, max_limits) ==
    {p \in DOMAIN windows :
        integrated_excess(windows[p]) < phase_threshold(max_limits[p])}

\* the phases whose integrated excess does not exceed the threshold
tolerated_phases(windows, max_limits) ==
    {p \in DOMAIN windows :
        integrated_excess(windows[p]) <= phase_threshold(max_limits[p])}

----------------------------------------------------------------------------
(* Coordinator (coordinator.py) *)

\* _available_phases as every phase, whatever the phase count
available_phases_every_phase(cfg) == Phase

\* EVSELoadBalancerCoordinator._available_phases: list(Phase)[:phase_count]
available_phases(cfg) == {PhaseOrder[i] : i \in 1..cfg.phase_count}

\* a meter none of whose entities has a state
NoReadings == [p \in Phase |-> None]

\* get_available_current_for_phase without the min(): the fuse size less the
\* reading
get_available_current_for_phase_unclamped(cfg, active_current) ==
    IF active_current # None
    THEN Some(cfg.fuse_size - Get(active_current))
    ELSE None

\* get_available_current_for_phase: None when the meter has no reading
get_available_current_for_phase(cfg, active_current) ==
    IF active_current # None
    THEN Some(MinOf(cfg.fuse_size, cfg.fuse_size - Get(active_current)))
    ELSE None

\* _get_available_currents leaving out the test for None: a phase without a
\* reading counts as unloaded
get_available_currents_unloaded(cfg, meter) ==
    Some([p \in available_phases(cfg) |->
            IF meter[p] = None THEN cfg.fuse_size
            ELSE Get(get_available_current_for_phase(cfg, meter[p]))])

\* _get_available_currents: None as soon as one live phase has no reading
get_available_currents(cfg, meter) ==
    IF \E p \in available_phases(cfg) :
          get_available_current_for_phase(cfg, meter[p]) = None
    THEN None
    ELSE Some([p \in available_phases(cfg) |->
                 Get(get_available_current_for_phase(cfg, meter[p]))])

\* _may_update_charger_settings with the minimum delay tested before the
\* decrease
may_update_delay_before_decrease(new_settings, current_limits, timestamp, last_update, last_decrease, hysteresis_minutes) ==
    IF last_update = None THEN TRUE
    ELSE IF timestamp - Get(last_update) <= MIN_CHARGER_UPDATE_DELAY THEN FALSE
    ELSE IF \E p \in Phase : new_settings[p] < current_limits[p] THEN TRUE
    ELSE LET decrease_time == IF last_decrease # None THEN Get(last_decrease)
                              ELSE Get(last_update)
         IN  /\ \E p \in Phase : new_settings[p] > current_limits[p]
             /\ timestamp - decrease_time > hysteresis_minutes * SecondsPerMinute

\* _may_update_charger_settings with the hysteresis taken as seconds
may_update_hysteresis_in_seconds(new_settings, current_limits, timestamp, last_update, last_decrease, hysteresis_minutes) ==
    IF last_update = None THEN TRUE
    ELSE IF \E p \in Phase : new_settings[p] < current_limits[p] THEN TRUE
    ELSE IF timestamp - Get(last_update) <= MIN_CHARGER_UPDATE_DELAY THEN FALSE
    ELSE LET decrease_time == IF last_decrease # None THEN Get(last_decrease)
                              ELSE Get(last_update)
         IN  /\ \E p \in Phase : new_settings[p] > current_limits[p]
             /\ timestamp - decrease_time > hysteresis_minutes

\* _may_update_charger_settings with "<" for "<=" in the minimum delay
may_update_delay_exclusive(new_settings, current_limits, timestamp, last_update, last_decrease, hysteresis_minutes) ==
    IF last_update = None THEN TRUE
    ELSE IF \E p \in Phase : new_settings[p] < current_limits[p] THEN TRUE
    ELSE IF timestamp - Get(last_update) < MIN_CHARGER_UPDATE_DELAY THEN FALSE
    ELSE LET decrease_time == IF last_decrease # None THEN Get(last_decrease)
                              ELSE Get(last_update)
         IN  /\ \E p \in Phase : new_settings[p] > current_limits[p]
             /\ timestamp - decrease_time > hysteresis_minutes * SecondsPerMinute

\* _may_update_charger_settings without the pass for the first update: only
\* a decrease passes while no update is recorded
may_update_first_decrease_only(new_settings, current_limits, timestamp, last_update, last_decrease, hysteresis_minutes) ==
    IF \E p \in Phase : new_settings[p] < current_limits[p] THEN TRUE
    ELSE IF last_update = None THEN FALSE
    ELSE IF timestamp - Get(last_update) <= MIN_CHARGER_UPDATE_DELAY THEN FALSE
    ELSE LET decrease_time == IF last_decrease # None THEN Get(last_decrease)
                              ELSE Get(last_update)
         IN  /\ \E p \in Phase : new_settings[p] > current_limits[p]
             /\ timestamp - decrease_time > hysteresis_minutes * SecondsPerMinute

\* _may_update_charger_settings without the fall-back to the last update:
\* no hysteresis while no decrease is recorded
may_update_no_fallback(new_settings, current_limits, timestamp, last_update, last_decrease, hysteresis_minutes) ==
    IF last_update = None THEN TRUE
    ELSE IF \E p \in Phase : new_settings[p] < current_limits[p] THEN TRUE
    ELSE IF timestamp - Get(last_update) <= MIN_CHARGER_UPDATE_DELAY THEN FALSE
    ELSE /\ \E p \in Phase : new_settings[p] > current_limits[p]
         /\ \/ last_decrease = None
            \/ timestamp - Get(last_decrease) > hysteresis_minutes * SecondsPerMinute

\* _may_update_charger_settings
may_update_charger_settings(new_settings, current_limits, timestamp, last_update, last_decrease, hysteresis_minutes) ==
    IF last_update = None THEN TRUE
    ELSE IF \E p \in Phase : new_settings[p] < current_limits[p] THEN TRUE
    ELSE IF timestamp - Get(last_update) <= MIN_CHARGER_UPDATE_DELAY THEN FALSE
    ELSE LET decrease_time == IF last_decrease # None THEN Get(last_decrease)
                              ELSE Get(last_update)
         IN  /\ \E p \in Phase : new_settings[p] > current_limits[p]
             /\ timestamp - decrease_time > hysteresis_minutes * SecondsPerMinute

\* the test taking every change of a phase for a decrease
is_decrease_or_increase(allocation_result, current_limit) ==
    \E p \in Phase : allocation_result[p] # current_limit[p]

\* the "is_decrease" test of _execute_update_cycle
is_decrease(allocation_result, current_limit) ==
    \E p \in Phase : allocation_result[p] < current_limit[p]

\* the record of an update cycle that has not run or that returned early
NoCycle ==
    [ran                   |-> FALSE,  \* an update cycle has just run
     meter_complete        |-> FALSE,  \* the meter had a reading on every live phase
     monitored             |-> FALSE,  \* _should_check_charger() was true
     balancer_calls        |-> 0,      \* calls of compute_availability
     allocator_calls       |-> 0,      \* calls of update_allocation
     allocation_result     |-> None,   \* the Allocator's proposal for the charger
     current_limit         |-> None,   \* the adapter's limit read at the gate
     seen_update_time      |-> None,   \* last_charger_update_time before the gate
     seen_decrease_time    |-> None,   \* last_decrease_time before the gate
     set_current_limit     |-> None,   \* the setpoint dispatched to the charger
     write_raised          |-> FALSE,  \* the set_current_limit task raised
     events                |-> <<>>]   \* new_limits of the events fired

\* the record of a direct call before the call
NoAllocation ==
    [called                |-> FALSE,
     calls                 |-> 0,      \* number of direct calls made so far
     available_currents    |-> None,   \* the availability given to the Balancer
     computed_availability |-> None,   \* the Balancer's output
     result                |-> [c \in {} |-> FromKeys(0)]]  \* update_allocation's

\* no set_current_limit task has been created yet
NoTasks ==
    [in_flight |-> <<>>,   \* the tasks not completed yet, in order of creation:
                           \* the limit each was given and when it was created
     landed    |-> None]   \* when the task that completed last was created

\* the charger the Coordinator was constructed with (self._charger)
TheCharger == "c1"

\* the coordinator's read of the limit falling back on the last applied
\* current when the adapter has none to report
charger_get_current_limit_or_applied(charger) ==
    IF charger.limit = None THEN chargers[TheCharger].last_applied_current
    ELSE charger.limit

\* self._charger.get_current_limit() as _execute_update_cycle reads it: the
\* adapter's limit, None when the entity is unavailable
charger_get_current_limit(charger) == charger.limit

\* _update_charger_settings without the event
update_charger_settings_silent(new_limits, timestamp) ==
    [last_charger_update_time |-> Some(timestamp),
     events                   |-> <<>>,
     set_current_limit        |-> Some(new_limits)]

\* _update_charger_settings: the update time it stores, the new_limits of the
\* new_charger_limits event it fires through _emit_charger_event, and the
\* limits of the set_current_limit task it creates
update_charger_settings(new_limits, timestamp) ==
    [last_charger_update_time |-> Some(timestamp),
     events                   |-> <<new_limits>>,
     set_current_limit        |-> Some(new_limits)]

\* the cycle handing the Allocator the availability the Balancer was given
update_allocation_argument_unbalanced(available_currents, computed_availability) ==
    available_currents

\* the available_currents argument of the update_allocation call in
\* _execute_update_cycle
update_allocation_argument(available_currents, computed_availability) ==
    computed_availability

\* _execute_update_cycle, called dt seconds after the previous cycle with the
\* meter's readings of this cycle; tolerated is the verdict of the Balancer's
\* window and raises tells whether the set_current_limit task that a dispatch
\* creates raises.  _update_charger_settings and update_applied_current are
\* part of it.
ExecuteUpdateCycle(dt, meter, tolerated, raises) ==
    /\ now + dt <= StartTime + MaxElapsed
    /\ now' = now + dt
    /\ UNCHANGED <<config, adapters, balancer, readings>>
    /\ LET timestamp == now + dt
           available_currents == get_available_currents(config, meter)
           ran == [NoCycle EXCEPT
                     !.ran = TRUE,
                     !.meter_complete = \A p \in available_phases(config) :
                                            meter[p] # None]
       IN
       IF available_currents = None
       THEN /\ cycle' = ran
            /\ UNCHANGED <<chargers, last_charger_update_time, last_decrease_time,
                           seen_can_charge>>
       ELSE IF ~should_monitor(chargers, adapters)
       THEN /\ cycle' = ran
            /\ seen_can_charge' = Some(FALSE)
            /\ UNCHANGED <<chargers, last_charger_update_time, last_decrease_time>>
       ELSE
       \* the two calls are made once and their results bound
       \E allocated \in {update_allocation(
                              update_allocation_argument(
                                  Get(available_currents),
                                  compute_availability(config.overcurrent_mode,
                                                       Get(available_currents),
                                                       tolerated)),
                              chargers, adapters, timestamp)} :
       \E allocation_result \in {IF TheCharger \in DOMAIN allocated.result
                                  THEN Some(allocated.result[TheCharger])
                                  ELSE None} :
       LET current_limit == charger_get_current_limit(adapters[TheCharger])
           called == [ran EXCEPT
                        !.monitored = TRUE,
                        !.balancer_calls = 1,
                        !.allocator_calls = 1,
                        !.allocation_result = allocation_result,
                        !.current_limit = current_limit,
                        !.seen_update_time = last_charger_update_time,
                        !.seen_decrease_time = last_decrease_time]
       IN
       /\ seen_can_charge' = Some(TRUE)
       /\ IF current_limit = None
          THEN /\ cycle' = called
               /\ chargers' = allocated.chargers
               /\ UNCHANGED <<last_charger_update_time, last_decrease_time>>
          ELSE IF /\ allocation_result # None
                  /\ may_update_charger_settings(
                         Get(allocation_result), Get(current_limit), timestamp,
                         last_charger_update_time, last_decrease_time,
                         config.hysteresis_minutes)
          THEN LET updated == update_charger_settings(Get(allocation_result),
                                                      timestamp)
               IN
               /\ last_decrease_time' =
                      IF is_decrease(Get(allocation_result), Get(current_limit))
                      THEN Some(timestamp) ELSE last_decrease_time
               /\ last_charger_update_time' = updated.last_charger_update_time
               /\ chargers' = update_applied_current(allocated.chargers, TheCharger,
                                                     Get(allocation_result), timestamp)
               /\ cycle' = [called EXCEPT
                              !.set_current_limit = updated.set_current_limit,
                              !.write_raised = raises,
                              !.events = updated.events]
          ELSE /\ cycle' = called
               /\ chargers' = allocated.chargers
               /\ UNCHANGED <<last_charger_update_time, last_decrease_time>>

----------------------------------------------------------------------------
(* The environment: the charger hardware as seen through its adapter *)

\* the limits an adapter can report: unavailable, one value on all phases,
\* or (chargers with per-phase limits) the setpoint last written to it
ReportableLimits(c) ==
    {None} \cup {Some(FromKeys(a)) : a \in 0..MaxAmp}
           \cup (IF adapters[c].synced THEN {} ELSE {chargers[c].last_applied_current})

\* the charger's limit entity changes: a dispatched write takes effect, the
\* user sets a limit by hand, or the entity becomes unavailable
LimitReported(c, limit) ==
    /\ limit \in ReportableLimits(c)
    /\ limit # adapters[c].limit
    /\ adapters' = [adapters EXCEPT ![c].limit = limit]
    /\ cycle' = NoCycle
    /\ UNCHANGED <<tasks, readings, balancer, now, config, chargers, last_charger_update_time,
                   last_decrease_time, seen_can_charge, allocation>>

\* the charger's status changes between "can charge" and "cannot charge"
StatusChanged(c) ==
    /\ adapters' = [adapters EXCEPT ![c].can_charge = ~@]
    /\ cycle' = NoCycle
    /\ UNCHANGED <<tasks, readings, balancer, now, config, chargers, last_charger_update_time,
                   last_decrease_time, seen_can_charge, allocation>>

----------------------------------------------------------------------------
(* The Coordinator with its one charger *)

\* seconds between two update cycles that the model distinguishes: within
\* the minimum delay and the settle time, and past the hysteresis window
TickSteps == {MIN_CHARGER_UPDATE_DELAY, SecondsPerMinute + 1}

\* the currents (A) the meter reports on a phase; None: no reading
MeterReadings == {None} \cup {Some(a) : a \in {-1} \cup (FuseSize - 1)..(FuseSize + 2)}

\* the meter readings of one cycle, on the live phases: the same on every
\* phase; a deficit on L1, a surplus on L2 and neither on L3; or no reading
\* on the last live phase only
MeterSamples(cfg) ==
    LET live == available_phases(cfg)
        mixed == [L1 |-> Some(FuseSize + 1), L2 |-> Some(FuseSize - 1),
                  L3 |-> Some(FuseSize)]
    IN  {[p \in live |-> r] : r \in MeterReadings}
        \cup {[p \in live |-> mixed[p]]}
        \cup {[p \in live |-> IF p = PhaseOrder[cfg.phase_count] THEN None
                               ELSE Some(FuseSize - 1)]}

\* the verdicts of the Balancer's window the model distinguishes
Verdicts(cfg) ==
    IF cfg.overcurrent_mode = OPTIMISED
    THEN {{}, available_phases(cfg)} ELSE {{}}

\* the options of the deployments that are modelled: the conservative mode
\* with a hysteresis of one minute, and temporary overcurrent allowed with
\* no hysteresis
Options ==
    {[overcurrent_mode |-> CONSERVATIVE, hysteresis_minutes |-> 1],
     [overcurrent_mode |-> OPTIMISED, hysteresis_minutes |-> 0]}

Configs ==
    {[fuse_size |-> FuseSize, phase_count |-> n,
      overcurrent_mode |-> o.overcurrent_mode,
      hysteresis_minutes |-> o.hysteresis_minutes] : n \in {1, 3}, o \in Options}

Adapters ==
    [limit : {None}, max_limit : {Some(FromKeys(MaxAmp))}, can_charge : {FALSE},
     synced : BOOLEAN, settle : {SettleTime}]

\* async_setup: a new PowerAllocator with the one charger added
Init ==
    /\ now = StartTime
    /\ config \in Configs
    /\ adapters \in [{TheCharger} -> Adapters]
    /\ chargers = [c \in {TheCharger} |-> NewChargerState]
    /\ last_charger_update_time = None
    /\ last_decrease_time = None
    /\ seen_can_charge = None
    /\ cycle = NoCycle
    /\ allocation = NoAllocation
    /\ balancer = NewBalancer(config)
    /\ readings = NoReadings
    /\ tasks = NoTasks

Tick ==
    \E dt \in TickSteps, meter \in MeterSamples(config),
       tolerated \in Verdicts(config) :
        ExecuteUpdateCycle(dt, meter, tolerated, FALSE) /\ UNCHANGED <<allocation, tasks>>

Environment ==
    \/ \E limit \in ReportableLimits(TheCharger) : LimitReported(TheCharger, limit)
    \/ StatusChanged(TheCharger)

Next == Tick \/ Environment

Spec == Init /\ [][Next]_vars

\* the same program in a 1-phase deployment, with a charger whose settle
\* time is the time between two cycles or one second more
InitSettle ==
    /\ now = StartTime
    /\ config \in {cfg \in Configs : cfg.phase_count = 1}
    /\ adapters \in [{TheCharger} ->
                      [limit : {None}, max_limit : {Some(FromKeys(MaxAmp))},
                       can_charge : {FALSE}, synced : BOOLEAN,
                       settle : {MIN_CHARGER_UPDATE_DELAY, SettleTime}]]
    /\ chargers = [c \in {TheCharger} |-> NewChargerState]
    /\ last_charger_update_time = None
    /\ last_decrease_time = None
    /\ seen_can_charge = None
    /\ cycle = NoCycle
    /\ allocation = NoAllocation
    /\ balancer = NewBalancer(config)
    /\ readings = NoReadings
    /\ tasks = NoTasks

SpecSettle == InitSettle /\ [][Next]_vars

\* the same program in a 1-phase deployment in conservative mode, with
\* initialize also called directly on the ChargerState, up to MaxCalls times
InitLazy ==
    /\ Init
    /\ config.phase_count = 1
    /\ config.overcurrent_mode = CONSERVATIVE

\* state.initialize()
Initialize(c) ==
    /\ allocation.calls < MaxCalls
    /\ chargers' = [chargers EXCEPT ![c] = initialize(chargers[c], adapters[c])]
    /\ allocation' = [allocation EXCEPT !.calls = @ + 1]
    /\ cycle' = NoCycle
    /\ UNCHANGED <<tasks, readings, balancer, now, config, adapters, last_charger_update_time,
                   last_decrease_time, seen_can_charge>>

NextLazy == Tick \/ Environment \/ Initialize(TheCharger)

SpecLazy == InitLazy /\ [][NextLazy]_vars

\* the same program in a 1-phase deployment with temporary overcurrent
\* allowed and a charger with synced phase limits, with the availability of
\* every update cycle and the Balancer's answer to it kept on record
InitCycle ==
    /\ Init
    /\ config.phase_count = 1
    /\ config.overcurrent_mode = OPTIMISED
    /\ adapters[TheCharger].synced

\* an update cycle; the record holds the availability of the cycle, what
\* compute_availability returns for it if the cycle gets that far, and in
\* calls the number of cycles in a row with this availability (up to MaxCalls)
TickRecorded ==
    \E dt \in TickSteps, meter \in MeterSamples(config),
       tolerated \in Verdicts(config) :
        /\ ExecuteUpdateCycle(dt, meter, tolerated, FALSE)
        /\ UNCHANGED tasks
        /\ \E available_currents \in {get_available_currents(config, meter)} :
              allocation' =
                [allocation EXCEPT
                   !.calls = IF allocation.available_currents = available_currents
                             THEN MinOf(@ + 1, MaxCalls) ELSE 1,
                   !.available_currents = available_currents,
                   !.computed_availability =
                       IF available_currents # None
                          /\ should_monitor(chargers, adapters)
                       THEN Some(compute_availability(config.overcurrent_mode,
                                                      Get(available_currents),
                                                      tolerated))
                       ELSE None]

NextCycle == TickRecorded \/ Environment

SpecCycle == InitCycle /\ [][NextCycle]_vars

\* the same program with adapter writes that may raise, in a 1-phase
\* deployment in conservative mode
InitWrite ==
    /\ Init
    /\ config.phase_count = 1
    /\ config.overcurrent_mode = CONSERVATIVE

TickWrite ==
    \E dt \in TickSteps, meter \in MeterSamples(config),
       tolerated \in Verdicts(config), raises \in BOOLEAN :
        ExecuteUpdateCycle(dt, meter, tolerated, raises) /\ UNCHANGED <<allocation, tasks>>

NextWrite == TickWrite \/ Environment

SpecWrite == InitWrite /\ [][NextWrite]_vars

\* the same program with the set_current_limit tasks as tasks: a dispatch
\* creates one and it completes at some later time, a synced charger in a
\* 1-phase deployment in conservative mode
InitDispatch ==
    /\ Init
    /\ config.phase_count = 1
    /\ config.overcurrent_mode = CONSERVATIVE
    /\ adapters[TheCharger].synced

\* an update cycle; hass.async_create_task adds the set_current_limit task of
\* a dispatch to those in flight (up to MaxTasks of them)
TickDispatch ==
    \E dt \in TickSteps, meter \in MeterSamples(config),
       tolerated \in Verdicts(config) :
        /\ ExecuteUpdateCycle(dt, meter, tolerated, FALSE)
        /\ UNCHANGED allocation
        /\ IF cycle'.set_current_limit = None
           THEN UNCHANGED tasks
           ELSE /\ Len(tasks.in_flight) < MaxTasks
                /\ tasks' = [tasks EXCEPT
                               !.in_flight =
                                   Append(@, [limit   |-> Get(cycle'.set_current_limit),
                                              created |-> now'])]

\* the number.set_value call of the i-th task in flight completes: the
\* charger's limit entity takes the value the task wrote
TaskCompletes(i) ==
    /\ i \in 1..Len(tasks.in_flight)
    /\ LET task == tasks.in_flight[i]
       IN  /\ adapters' = [adapters EXCEPT
                              ![TheCharger].limit =
                                  Some(FromKeys(webasto_set_current_limit(task.limit)))]
           /\ tasks' = [in_flight |-> [k \in 1..(Len(tasks.in_flight) - 1) |->
                                          IF k < i THEN tasks.in_flight[k]
                                          ELSE tasks.in_flight[k + 1]],
                        landed    |-> Some(task.created)]
    /\ cycle' = NoCycle
    /\ UNCHANGED <<readings, balancer, now, config, chargers, last_charger_update_time,
                   last_decrease_time, seen_can_charge, allocation>>

NextDispatch ==
    \/ TickDispatch
    \/ \E i \in 1..MaxTasks : TaskCompletes(i)
    \/ Environment

SpecDispatch == InitDispatch /\ [][NextDispatch]_vars

----------------------------------------------------------------------------
(* The PowerAllocator with two chargers, called directly: one call of the  *)
(* Balancer and of update_allocation from a state drawn from bounded sets  *)

AllocChargers == {"c1", "c2"}

UniformLimits == {Some(FromKeys(a)) : a \in 0..MaxAmp}

\* an initialised ChargerState outside the settle time
InitializedState(requested, applied, session) ==
    [NewChargerState EXCEPT !.requested_current = requested,
                            !.last_applied_current = applied,
                            !.initialized = TRUE,
                            !.active_session = session]

\* the ChargerStates of the first charger: new, or initialised with any
\* requested current, throttled or not, in or out of a session
AllocStates ==
    {NewChargerState}
    \cup {InitializedState(r, a, session) :
            r \in UniformLimits,
            a \in {Some(FromKeys(0)), Some(FromKeys(MaxAmp))},
            session \in BOOLEAN}

\* the ChargerState of the second charger: in a session, last written the
\* limit it reports, with the charger's maximum as requested current
ThrottledState(charger) ==
    InitializedState(Some(FromKeys(MaxAmp)),
                     IF charger.limit = None THEN Some(FromKeys(MaxAmp))
                     ELSE charger.limit,
                     TRUE)

InitAlloc ==
    /\ now = StartTime
    /\ config \in [fuse_size : {FuseSize}, phase_count : {1, 3},
                   overcurrent_mode : {CONSERVATIVE, OPTIMISED},
                   hysteresis_minutes : {1}]
    /\ \E synced \in BOOLEAN :
          adapters \in [AllocChargers ->
                          [limit : {None} \cup UniformLimits,
                           max_limit : {Some(FromKeys(MaxAmp))},
                           can_charge : BOOLEAN, synced : {synced},
                           settle : {SettleTime}]]
    /\ chargers \in [AllocChargers -> AllocStates]
    /\ chargers["c2"] = ThrottledState(adapters["c2"])
    /\ last_charger_update_time = None
    /\ last_decrease_time = None
    /\ seen_can_charge = None
    /\ cycle = NoCycle
    /\ allocation = NoAllocation
    /\ balancer = NewBalancer(config)
    /\ readings = NoReadings
    /\ tasks = NoTasks

\* compute_availability and update_allocation as the update cycle calls them,
\* on the availability of one meter sample
Allocate(meter, tolerated) ==
    /\ ~allocation.called
    /\ get_available_currents(config, meter) # None
    /\ LET available_currents == Get(get_available_currents(config, meter))
           computed_availability ==
               compute_availability(config.overcurrent_mode, available_currents,
                                    tolerated)
           allocated == update_allocation(computed_availability, chargers,
                                          adapters, now)
       IN  /\ chargers' = allocated.chargers
           /\ allocation' = [called                |-> TRUE,
                             calls                 |-> allocation.calls + 1,
                             available_currents    |-> Some(available_currents),
                             computed_availability |-> Some(computed_availability),
                             result                |-> allocated.result]
    /\ UNCHANGED <<tasks, readings, balancer, now, config, adapters, last_charger_update_time,
                   last_decrease_time, seen_can_charge, cycle>>

\* a meter reading with a surplus on every live phase but the last, which is
\* at the fuse size
SurplusButLast(cfg) ==
    [p \in available_phases(cfg) |->
        IF p = PhaseOrder[cfg.phase_count] THEN Some(FuseSize)
        ELSE Some(FuseSize - 1)]

NextAlloc ==
    \E meter \in MeterSamples(config) \cup {SurplusButLast(config)},
       tolerated \in Verdicts(config) :
        Allocate(meter, tolerated)

SpecAlloc == InitAlloc /\ [][NextAlloc]_vars

----------------------------------------------------------------------------
(* The PowerAllocator with two chargers at household amperes, both with    *)
(* per-phase limits: update_allocation called directly with the deltas     *)

\* the limits and requested currents (A) of the chargers
ChargeSamples == {0, 2, 14, 16, 22, 28, MaxCharge}

\* the deltas (A) handed to update_allocation: the same on every live phase,
\* or a cut on L1, a grant on L2 and nothing on L3
DeltaSamples(cfg) ==
    LET live == available_phases(cfg)
        mixed == [L1 |-> -25, L2 |-> 22, L3 |-> 0]
    IN  {[p \in live |-> d] : d \in {-25, -4, 0, 5, 22}}
        \cup {[p \in live |-> mixed[p]]}

InitDeltas ==
    /\ now = StartTime
    /\ config \in [fuse_size : {FuseSize}, phase_count : {1, 3},
                   overcurrent_mode : {CONSERVATIVE}, hysteresis_minutes : {1}]
    /\ adapters \in [AllocChargers ->
                      [limit : {Some(FromKeys(a)) : a \in ChargeSamples},
                       max_limit : {Some(FromKeys(MaxCharge))},
                       can_charge : BOOLEAN, synced : {FALSE},
                       settle : {SettleTime}]]
    /\ adapters["c2"].can_charge
    /\ \E r \in [AllocChargers -> ChargeSamples] :
          chargers = [c \in AllocChargers |->
                        InitializedState(Some(FromKeys(r[c])), adapters[c].limit, TRUE)]
    /\ last_charger_update_time = None
    /\ last_decrease_time = None
    /\ seen_can_charge = None
    /\ cycle = NoCycle
    /\ allocation = NoAllocation
    /\ balancer = NewBalancer(config)
    /\ readings = NoReadings
    /\ tasks = NoTasks

\* power_allocator.update_allocation(available_currents=deltas)
UpdateAllocation(deltas) ==
    /\ ~allocation.called
    /\ LET allocated == update_allocation(deltas, chargers, adapters, now)
       IN  /\ chargers' = allocated.chargers
           /\ allocation' = [called                |-> TRUE,
                             calls                 |-> allocation.calls + 1,
                             available_currents    |-> Some(deltas),
                             computed_availability |-> Some(deltas),
                             result                |-> allocated.result]
    /\ UNCHANGED <<tasks, readings, balancer, now, config, adapters, last_charger_update_time,
                   last_decrease_time, seen_can_charge, cycle>>

NextDeltas == \E deltas \in DeltaSamples(config) : UpdateAllocation(deltas)

SpecDeltas == InitDeltas /\ [][NextDeltas]_vars

----------------------------------------------------------------------------
(* The same two chargers, with the result of the direct call applied and   *)
(* update_allocation called once more on the deltas the meter then shows   *)

\* the adapters after every setpoint of the result has been written
AppliedAdapters ==
    [c \in DOMAIN adapters |->
        IF c \in DOMAIN allocation.result
        THEN [adapters[c] EXCEPT !.limit = Some(allocation.result[c])]
        ELSE adapters[c]]

\* the ChargerStates after update_applied_current for every setpoint of the
\* result
AppliedChargers ==
    [c \in DOMAIN chargers |->
        IF c \in DOMAIN allocation.result
        THEN update_applied_current(chargers, c, allocation.result[c], now)[c]
        ELSE chargers[c]]

\* the deltas of a meter that reflects the written setpoints: the deltas of
\* the first call less what the chargers of the result draw more than before
ResampledDeltas ==
    [p \in DOMAIN Get(allocation.computed_availability) |->
        Get(allocation.computed_availability)[p]
          - SumOver([c \in DOMAIN allocation.result |->
                       allocation.result[c][p] - Get(adapters[c].limit)[p]],
                    DOMAIN allocation.result)]

\* the setpoints are written, update_applied_current is called for each, and
\* power_allocator.update_allocation runs on the re-sampled deltas
ApplyAndUpdateAllocation ==
    /\ allocation.called
    /\ allocation.calls = 1
    /\ LET allocated == update_allocation(ResampledDeltas, AppliedChargers,
                                          AppliedAdapters, now)
       IN  /\ adapters' = AppliedAdapters
           /\ chargers' = allocated.chargers
           /\ allocation' = [called                |-> TRUE,
                             calls                 |-> allocation.calls + 1,
                             available_currents    |-> Some(ResampledDeltas),
                             computed_availability |-> Some(ResampledDeltas),
                             result                |-> allocated.result]
    /\ UNCHANGED <<tasks, readings, balancer, now, config, last_charger_update_time, last_decrease_time,
                   seen_can_charge, cycle>>

NextReapply ==
    \/ \E deltas \in DeltaSamples(config) : UpdateAllocation(deltas)
    \/ ApplyAndUpdateAllocation

SpecReapply == InitDeltas /\ [][NextReapply]_vars

----------------------------------------------------------------------------
(* The same two chargers in a 1-phase deployment with a surplus that stays *)
(* as it is: update_allocation called cycle after cycle, every result      *)
(* written to the chargers before the next call.  The clock is left alone: *)
(* the adapters report what was written, inside the settle time or not     *)

\* the surplus (A) on L1, the same in every cycle
SurplusSamples == {1, 5, 22}

\* both chargers can charge and have the charger's maximum as requested
\* current
InitSurplus ==
    /\ InitDeltas
    /\ config.phase_count = 1
    /\ \A c \in AllocChargers :
          /\ adapters[c].can_charge
          /\ chargers[c].requested_current = Some(FromKeys(MaxCharge))

\* the result of the latest call has not been written to the chargers yet
ResultPending == DOMAIN allocation.result # {}

\* power_allocator.update_allocation(available_currents={L1: surplus}),
\* once the result of the call before has been written
UpdateAllocationOnSurplus(surplus) ==
    /\ ~ResultPending
    /\ IF allocation.called
       THEN allocation.computed_availability = Some([p \in {"L1"} |-> surplus])
       ELSE TRUE
    /\ \E allocated \in {update_allocation([p \in {"L1"} |-> surplus], chargers,
                                            adapters, now)} :
          /\ chargers' = allocated.chargers
          /\ allocation' =
                [called                |-> TRUE,
                 calls                 |-> MinOf(allocation.calls + 1, MaxCalls),
                 available_currents    |-> Some([p \in {"L1"} |-> surplus]),
                 computed_availability |-> Some([p \in {"L1"} |-> surplus]),
                 result                |-> allocated.result]
    /\ UNCHANGED <<tasks, readings, balancer, now, config, adapters,
                   last_charger_update_time, last_decrease_time,
                   seen_can_charge, cycle>>

\* every setpoint of the result is written to its charger and recorded with
\* update_applied_current
ApplyResult ==
    /\ ResultPending
    /\ adapters' = AppliedAdapters
    /\ chargers' = AppliedChargers
    /\ allocation' = [allocation EXCEPT !.result = NoAllocation.result]
    /\ UNCHANGED <<tasks, readings, balancer, now, config, last_charger_update_time,
                   last_decrease_time, seen_can_charge, cycle>>

NextSurplus ==
    \/ \E surplus \in SurplusSamples : UpdateAllocationOnSurplus(surplus)
    \/ ApplyResult

\* the update cycles keep coming and every write takes effect
SpecSurplus == InitSurplus /\ [][NextSurplus]_vars /\ WF_vars(NextSurplus)

----------------------------------------------------------------------------
(* The Balancer called once per update cycle in a 1-phase deployment with  *)
(* a 25 A fuse, on a meter that reads 22 A or, during an overload, 27 A    *)

\* the currents (A) the meter reads
SpikeReadings == {22, 27}

\* an overload starts only when the window holds no excess sample: one
\* overload at a time is followed, a later one after the first has left the
\* window
OverloadMayStart(samples) ==
    IF \A i \in DOMAIN samples : samples[i].excess = 0 THEN TRUE
    ELSE samples[Len(samples)].excess > 0

InitBalancer ==
    /\ now = StartTime
    /\ config \in [fuse_size : {25}, phase_count : {1},
                   overcurrent_mode : {CONSERVATIVE, OPTIMISED},
                   hysteresis_minutes : {1}]
    /\ adapters \in [{TheCharger} -> Adapters]
    /\ chargers = [c \in {TheCharger} |-> NewChargerState]
    /\ last_charger_update_time = None
    /\ last_decrease_time = None
    /\ seen_can_charge = None
    /\ cycle = NoCycle
    /\ allocation = NoAllocation
    /\ balancer = NewBalancer(config)
    /\ readings = NoReadings
    /\ tasks = NoTasks

\* _get_available_currents and compute_availability(available_currents, now)
\* as an update cycle calls them, EXECUTION_CYCLE_DELAY after the last cycle
ComputeAvailability(meter) ==
    /\ now < StartTime + MaxTicks
    /\ get_available_currents(config, meter) # None
    /\ \E available_currents \in {Get(get_available_currents(config, meter))} :
       \E windows \in {record_samples(balancer, available_currents,
                                      now + EXECUTION_CYCLE_DELAY)} :
          /\ \A p \in DOMAIN balancer :
                available_currents[p] < 0 => OverloadMayStart(balancer[p])
          /\ now' = now + EXECUTION_CYCLE_DELAY
          /\ balancer' = windows
          /\ allocation' =
                [allocation EXCEPT
                    !.called = TRUE,
                    !.calls = @ + 1,
                    !.available_currents = Some(available_currents),
                    !.computed_availability =
                        Some(compute_availability(
                                 config.overcurrent_mode, available_currents,
                                 tolerated_phases(
                                     windows,
                                     [p \in DOMAIN windows |-> config.fuse_size])))]
    /\ UNCHANGED <<tasks, readings, config, adapters, chargers, last_charger_update_time,
                   last_decrease_time, seen_can_charge, cycle>>

NextBalancer ==
    \E reading \in SpikeReadings :
        ComputeAvailability([p \in available_phases(config) |-> Some(reading)])

SpecBalancer == InitBalancer /\ [][NextBalancer]_vars

----------------------------------------------------------------------------
(* The Coordinator's sampling of the meter, _get_available_currents called *)
(* directly on a meter with any readings on its three phases               *)

InitMeter ==
    /\ now = StartTime
    /\ config \in Configs
    /\ adapters \in [{TheCharger} -> Adapters]
    /\ chargers = [c \in {TheCharger} |-> NewChargerState]
    /\ last_charger_update_time = None
    /\ last_decrease_time = None
    /\ seen_can_charge = None
    /\ cycle = NoCycle
    /\ allocation = NoAllocation
    /\ balancer = NewBalancer(config)
    /\ readings \in [Phase -> MeterReadings]
    /\ tasks = NoTasks

\* self._get_available_currents()
GetAvailableCurrents ==
    /\ allocation.calls < MaxCalls
    /\ allocation' = [allocation EXCEPT
                        !.called = TRUE,
                        !.calls = @ + 1,
                        !.available_currents =
                            get_available_currents(config, readings)]
    /\ UNCHANGED <<tasks, readings, balancer, now, config, adapters, chargers,
                   last_charger_update_time, last_decrease_time,
                   seen_can_charge, cycle>>

\* the meter's reading on phase p changes
ReadingChanged(p, r) ==
    /\ allocation.calls < MaxCalls
    /\ readings[p] # r
    /\ readings' = [readings EXCEPT ![p] = r]
    /\ allocation' = [allocation EXCEPT !.called = FALSE]
    /\ UNCHANGED <<tasks, balancer, now, config, adapters, chargers,
                   last_charger_update_time, last_decrease_time,
                   seen_can_charge, cycle>>

NextMeter ==
    \/ GetAvailableCurrents
    \/ \E p \in Phase, r \in MeterReadings : ReadingChanged(p, r)

SpecMeter == InitMeter /\ [][NextMeter]_vars

----------------------------------------------------------------------------
(* The Webasto Unite adapter, set_current_limit called directly with maps  *)
(* over any phases and values up to one ampere above the maximum           *)

\* the maps set_current_limit is called with: any non-empty set of phases,
\* any values from 0 to one above the charger's maximum
LimitMaps ==
    UNION {[ps -> 0..(MaxAmp + 1)] : ps \in (SUBSET Phase) \ {{}}}

InitAdapter ==
    /\ now = StartTime
    /\ config \in [fuse_size : {FuseSize}, phase_count : {3},
                   overcurrent_mode : {CONSERVATIVE}, hysteresis_minutes : {1}]
    /\ adapters \in [{TheCharger} ->
                      [limit : UniformLimits,
                       max_limit : {Some(FromKeys(MaxAmp))},
                       can_charge : BOOLEAN, synced : {TRUE},
                       settle : {SettleTime}]]
    /\ chargers = [c \in {TheCharger} |-> NewChargerState]
    /\ last_charger_update_time = None
    /\ last_decrease_time = None
    /\ seen_can_charge = None
    /\ cycle = NoCycle
    /\ allocation = NoAllocation
    /\ balancer = NewBalancer(config)
    /\ readings = NoReadings
    /\ tasks = NoTasks

\* await charger.set_current_limit(limit): the service call is blocking and
\* the limit entity holds the written value afterwards
SetCurrentLimit(c, limit) ==
    /\ allocation.calls < MaxCalls
    /\ adapters' = [adapters EXCEPT
                      ![c].limit = Some(FromKeys(webasto_set_current_limit(limit)))]
    /\ cycle' = [NoCycle EXCEPT !.set_current_limit = Some(limit)]
    /\ allocation' = [allocation EXCEPT !.called = TRUE, !.calls = @ + 1]
    /\ UNCHANGED <<tasks, readings, balancer, now, config, chargers, last_charger_update_time,
                   last_decrease_time, seen_can_charge>>

NextAdapter == \E limit \in LimitMaps : SetCurrentLimit(TheCharger, limit)

SpecAdapter == InitAdapter /\ [][NextAdapter]_vars

----------------------------------------------------------------------------
(* The Allocator with its one charger, update_applied_current called       *)
(* directly, up to MaxCalls times, with ids it has and ids it has not      *)

\* the ids the calls are made with: the charger that was added, and one that
\* never was
AppliedIds == {TheCharger, "c2"}

\* the record of a direct call of update_applied_current before the call
NoAppliedCall ==
    [calls      |-> 0,       \* number of direct calls made so far
     charger_id |-> None,    \* the id of the latest call
     warned     |-> FALSE,   \* the latest call logged the warning
     raised     |-> FALSE]   \* the latest call raised

InitApplied ==
    /\ now = StartTime
    /\ config \in [fuse_size : {FuseSize}, phase_count : {1, 3},
                   overcurrent_mode : {CONSERVATIVE}, hysteresis_minutes : {1}]
    /\ adapters \in [{TheCharger} ->
                      [limit : {Some(FromKeys(MaxAmp))},
                       max_limit : {Some(FromKeys(MaxAmp))},
                       can_charge : {TRUE}, synced : {FALSE},
                       settle : {SettleTime}]]
    /\ chargers \in [{TheCharger} -> AllocStates]
    /\ last_charger_update_time = None
    /\ last_decrease_time = None
    /\ seen_can_charge = None
    /\ cycle = NoCycle
    /\ allocation = NoAppliedCall
    /\ balancer = NewBalancer(config)
    /\ readings = NoReadings
    /\ tasks = NoTasks

\* power_allocator.update_applied_current(charger_id, applied_current, now)
UpdateAppliedCurrent(charger_id, applied_current) ==
    /\ allocation.calls < MaxCalls
    /\ \E outcome \in {update_applied_current_outcome(chargers, charger_id,
                                                      applied_current, now)} :
          /\ chargers' = outcome.chargers
          /\ allocation' = [calls      |-> allocation.calls + 1,
                            charger_id |-> Some(charger_id),
                            warned     |-> outcome.warned,
                            raised     |-> outcome.raised]
    /\ UNCHANGED <<tasks, readings, balancer, now, config, adapters,
                   last_charger_update_time, last_decrease_time, seen_can_charge,
                   cycle>>

NextApplied ==
    \E charger_id \in AppliedIds, a \in 0..MaxAmp :
        UpdateAppliedCurrent(charger_id, FromKeys(a))

SpecApplied == InitApplied /\ [][NextApplied]_vars

----------------------------------------------------------------------------
(* One ChargerState, detect_manual_override called directly, up to MaxCalls *)
(* times in succession with the hardware and the clock left as they are    *)

\* the limits the adapter reports here: uniform, or lower on L1 only
DetectLimits ==
    UniformLimits \cup {Some([p \in Phase |-> IF p = "L1" THEN 0 ELSE MaxAmp])}

\* the initialised ChargerStates: any requested and last applied current,
\* written long ago or just now (inside the settle time)
DetectStates ==
    {[NewChargerState EXCEPT !.requested_current = r,
                             !.last_applied_current = a,
                             !.last_update_time = u,
                             !.manual_override_detected = m,
                             !.initialized = TRUE,
                             !.active_session = session] :
        r \in DetectLimits, a \in DetectLimits, u \in {0, StartTime},
        m \in BOOLEAN, session \in BOOLEAN}

InitDetect ==
    /\ now = StartTime
    /\ config \in [fuse_size : {FuseSize}, phase_count : {3},
                   overcurrent_mode : {CONSERVATIVE}, hysteresis_minutes : {1}]
    /\ adapters \in [{TheCharger} ->
                      [limit : {None} \cup DetectLimits,
                       max_limit : {None, Some(FromKeys(MaxAmp))},
                       can_charge : BOOLEAN, synced : {FALSE},
                       settle : {SettleTime}]]
    /\ chargers \in [{TheCharger} -> DetectStates]
    /\ last_charger_update_time = None
    /\ last_decrease_time = None
    /\ seen_can_charge = None
    /\ cycle = NoCycle
    /\ allocation = NoAllocation
    /\ balancer = NewBalancer(config)
    /\ readings = NoReadings
    /\ tasks = NoTasks

\* state.detect_manual_override()
DetectManualOverride(c) ==
    /\ allocation.calls < MaxCalls
    /\ chargers' = [chargers EXCEPT
                      ![c] = detect_manual_override(chargers[c], adapters[c], now)]
    /\ allocation' = [allocation EXCEPT !.calls = @ + 1]
    /\ UNCHANGED <<tasks, readings, balancer, now, config, adapters, last_charger_update_time,
                   last_decrease_time, seen_can_charge, cycle>>

NextDetect == DetectManualOverride(TheCharger)

SpecDetect == InitDetect /\ [][NextDetect]_vars

----------------------------------------------------------------------------
(* One ChargerState at the start of a session whose adapter has no maximum *)
(* to report at first: detect_manual_override called up to MaxCalls times, *)
(* the maximum becoming available in between                               *)

\* a charger that can charge, initialised outside a session, with the limit
\* it reports as last applied current and no maximum to report
InitSession ==
    /\ now = StartTime
    /\ config \in [fuse_size : {FuseSize}, phase_count : {3},
                   overcurrent_mode : {CONSERVATIVE}, hysteresis_minutes : {1}]
    /\ adapters \in [{TheCharger} ->
                      [limit : DetectLimits, max_limit : {None},
                       can_charge : {TRUE}, synced : {FALSE},
                       settle : {SettleTime}]]
    /\ chargers \in [{TheCharger} -> DetectStates]
    /\ chargers[TheCharger].last_applied_current = adapters[TheCharger].limit
    /\ ~chargers[TheCharger].active_session
    /\ last_charger_update_time = None
    /\ last_decrease_time = None
    /\ seen_can_charge = None
    /\ cycle = NoCycle
    /\ allocation = NoAllocation
    /\ balancer = NewBalancer(config)
    /\ readings = NoReadings
    /\ tasks = NoTasks

\* the adapter's maximum current entity becomes available
MaxLimitReported(c) ==
    /\ adapters[c].max_limit = None
    /\ adapters' = [adapters EXCEPT ![c].max_limit = Some(FromKeys(MaxAmp))]
    /\ UNCHANGED <<tasks, readings, balancer, now, config, chargers, last_charger_update_time,
                   last_decrease_time, seen_can_charge, cycle, allocation>>

NextSession ==
    \/ DetectManualOverride(TheCharger)
    \/ MaxLimitReported(TheCharger)

SpecSession == InitSession /\ [][NextSession]_vars

----------------------------------------------------------------------------
(* Claims *)

\* the update cycle that just ran dispatched a setpoint
Dispatched == cycle.ran /\ cycle.set_current_limit # None

\* the update cycle that just ran got a proposal and read the charger's limit
Proposed == cycle.ran /\ cycle.allocation_result # None /\ cycle.current_limit # None

\* the proposal of the cycle has a phase below / above the limit read at the gate
ProposalLowers ==
    \E p \in Phase : Get(cycle.allocation_result)[p] < Get(cycle.current_limit)[p]
ProposalRaises ==
    \E p \in Phase : Get(cycle.allocation_result)[p] > Get(cycle.current_limit)[p]

\* C1: every setpoint the Coordinator dispatches lies, on every live phase,
\* between 0 and the fuse size.
C1_DispatchWithinFuse ==
    Dispatched =>
        \A p \in available_phases(config) :
            /\ 0 <= Get(cycle.set_current_limit)[p]
            /\ Get(cycle.set_current_limit)[p] <= config.fuse_size

\* C2: a proposal with at least one phase below the charger's current limit
\* is dispatched in the same cycle, whatever the recorded update times.
C2_DecreaseDispatchedAtOnce ==
    (Proposed /\ ProposalLowers) => cycle.set_current_limit = cycle.allocation_result

\* C2 witness: a lowering proposal dispatched within the minimum delay after
\* the previous update
C2_Witness ==
    /\ Proposed /\ ProposalLowers /\ Dispatched
    /\ cycle.seen_update_time # None
    /\ now - Get(cycle.seen_update_time) <= MIN_CHARGER_UPDATE_DELAY

\* the direct call lowered charger c below the limit its adapter reports
Lowered(c) ==
    /\ c \in DOMAIN allocation.result
    /\ adapters[c].limit # None
    /\ \E q \in Phase : allocation.result[c][q] < Get(adapters[c].limit)[q]

\* the direct call was made in conservative mode with a deficit on phase p
ConservativeDeficit(p) ==
    /\ allocation.called
    /\ config.overcurrent_mode = CONSERVATIVE
    /\ p \in available_phases(config)
    /\ Get(allocation.available_currents)[p] < 0

\* C3 as stated: in conservative mode a deficit on a phase p lowers some
\* phase of at least one active charger, unless every active charger is
\* already at 0 on p.
C3_DeficitLowersOrAllAtZero ==
    \A p \in Phase :
        ConservativeDeficit(p) =>
            \/ \E c \in active_chargers(chargers, adapters) : Lowered(c)
            \/ \A c \in active_chargers(chargers, adapters) :
                  adapters[c].limit # None /\ Get(adapters[c].limit)[p] = 0

\* C3: in conservative mode a deficit on a phase p lowers some phase of at
\* least one active charger, unless every active charger whose current limit
\* is known is already at 0 on p.
C3_DeficitLowersOrKnownAtZero ==
    \A p \in Phase :
        ConservativeDeficit(p) =>
            \/ \E c \in active_chargers(chargers, adapters) : Lowered(c)
            \/ \A c \in active_chargers(chargers, adapters) :
                  adapters[c].limit # None => Get(adapters[c].limit)[p] = 0

\* C3 witness: a deficit shared by two active chargers, both lowered
C3_Witness ==
    /\ \E p \in Phase : ConservativeDeficit(p)
    /\ active_chargers(chargers, adapters) = AllocChargers
    /\ \A c \in AllocChargers : Lowered(c)

\* C4: once a decrease is recorded, a proposal that lowers no phase and
\* raises one is dispatched only more than hysteresis_minutes * 60 s after
\* that decrease and more than 20 s after the last update.
C4_IncreaseAfterHysteresis ==
    (/\ Proposed /\ ~ProposalLowers /\ ProposalRaises
     /\ cycle.seen_decrease_time # None
     /\ Dispatched)
        => /\ now - Get(cycle.seen_decrease_time)
                > config.hysteresis_minutes * SecondsPerMinute
           /\ now - Get(cycle.seen_update_time) > MIN_CHARGER_UPDATE_DELAY

\* C4 witness: with a hysteresis of one minute, an increase dispatched after
\* a recorded decrease
C4_Witness ==
    /\ Proposed /\ ~ProposalLowers /\ ProposalRaises /\ Dispatched
    /\ cycle.seen_decrease_time # None
    /\ config.hysteresis_minutes > 0

\* C5: after a dispatch that lowered a phase, no setpoint higher on some
\* phase than the setpoint dispatched before it is dispatched until
\* hysteresis_minutes * 60 s after that decrease.
C5_NoIncreaseInsideHysteresis ==
    [][(/\ last_decrease_time # None
        /\ chargers[TheCharger].last_applied_current # None
        /\ cycle'.ran /\ cycle'.set_current_limit # None
        /\ \E p \in Phase :
              Get(cycle'.set_current_limit)[p]
                  > Get(chargers[TheCharger].last_applied_current)[p])
          => now' - Get(last_decrease_time)
                 >= config.hysteresis_minutes * SecondsPerMinute]_vars

\* C6: once an update is recorded, a proposal that lowers no phase is not
\* dispatched within 20 s of it; the Balancer and the Allocator were called.
C6_MinimumDelayDefers ==
    (/\ Proposed /\ ~ProposalLowers
     /\ cycle.seen_update_time # None
     /\ now - Get(cycle.seen_update_time) <= MIN_CHARGER_UPDATE_DELAY)
        => /\ cycle.set_current_limit = None
           /\ cycle.events = <<>>
           /\ cycle.balancer_calls = 1
           /\ cycle.allocator_calls = 1

\* C6 witness: an increase deferred 20 s after the last update although the
\* hysteresis is 0
C6_Witness ==
    /\ Proposed /\ ~ProposalLowers /\ ProposalRaises
    /\ cycle.seen_update_time # None
    /\ now - Get(cycle.seen_update_time) = MIN_CHARGER_UPDATE_DELAY
    /\ config.hysteresis_minutes = 0
    /\ ~Dispatched

\* C7: while no update is recorded, every proposal the Allocator returns for
\* the charger is dispatched in that cycle.
C7_FirstProposalDispatched ==
    (/\ cycle.ran /\ cycle.monitored
     /\ cycle.allocation_result # None
     /\ cycle.seen_update_time = None)
        => /\ cycle.set_current_limit = cycle.allocation_result
           /\ cycle.events = <<Get(cycle.allocation_result)>>

\* C7 witness: a proposal that only raises phases, dispatched while no update
\* was recorded, with a hysteresis of one minute
C7_Witness ==
    /\ Proposed /\ ~ProposalLowers /\ ProposalRaises /\ Dispatched
    /\ cycle.seen_update_time = None
    /\ config.hysteresis_minutes > 0

\* C8 as stated: while no decrease is recorded, an increase (the initial one
\* included) is dispatched only after hysteresis_minutes * 60 s have elapsed
\* since a recorded update.
C8_InitialIncreaseBlocked ==
    (/\ Proposed /\ ~ProposalLowers /\ ProposalRaises /\ Dispatched
     /\ cycle.seen_decrease_time = None
     /\ config.hysteresis_minutes > 0)
        => /\ cycle.seen_update_time # None
           /\ now - Get(cycle.seen_update_time)
                > config.hysteresis_minutes * SecondsPerMinute

\* C8: while no decrease is recorded but an update is, an increase is
\* dispatched exactly when more than hysteresis_minutes * 60 s and more than
\* 20 s have elapsed since that update; the initial increase, proposed while
\* no update is recorded, is dispatched at once.
C8_IncreaseGatedOnLastUpdate ==
    (/\ Proposed /\ ~ProposalLowers /\ ProposalRaises
     /\ cycle.seen_decrease_time = None)
        => IF cycle.seen_update_time = None THEN Dispatched
           ELSE Dispatched <=>
                  /\ now - Get(cycle.seen_update_time)
                       > config.hysteresis_minutes * SecondsPerMinute
                  /\ now - Get(cycle.seen_update_time) > MIN_CHARGER_UPDATE_DELAY

\* C8 witness: no decrease recorded, an increase proposed more than 20 s but
\* less than the hysteresis after the last update, and deferred
C8_Witness ==
    /\ Proposed /\ ~ProposalLowers /\ ProposalRaises /\ ~Dispatched
    /\ cycle.seen_decrease_time = None
    /\ cycle.seen_update_time # None
    /\ now - Get(cycle.seen_update_time) > MIN_CHARGER_UPDATE_DELAY

\* C9: a cycle in which the meter has no reading on some live phase calls
\* neither the Balancer nor the Allocator, dispatches nothing, fires no event
\* and leaves the update times and every ChargerState unchanged.
C9_NoReadingNoAction ==
    [][(cycle'.ran /\ ~cycle'.meter_complete)
          => /\ cycle'.balancer_calls = 0
             /\ cycle'.allocator_calls = 0
             /\ cycle'.set_current_limit = None
             /\ cycle'.events = <<>>
             /\ UNCHANGED <<chargers, last_charger_update_time,
                            last_decrease_time>>]_vars

\* C9 witness: the meter lacks a reading while the charger can charge, reports
\* a limit and has been updated before
C9_Witness ==
    /\ cycle.ran /\ ~cycle.meter_complete
    /\ should_monitor(chargers, adapters)
    /\ adapters[TheCharger].limit # None
    /\ last_charger_update_time # None

\* C10: the first cycle that sees can_charge() true after a cycle that saw it
\* false ends with requested_current equal to the adapter's maximum limit
\* (for a charger whose limit is known).
C10_SessionStartResetsRequested ==
    [][(/\ seen_can_charge = Some(FALSE)
        /\ cycle'.ran /\ cycle'.monitored
        /\ adapters[TheCharger].limit # None
        /\ adapters[TheCharger].max_limit # None)
          => chargers'[TheCharger].requested_current
                 = adapters[TheCharger].max_limit]_vars

\* the reading detect_manual_override compares: get_current_limit()
Reading(c) == get_current_limit(chargers[c], adapters[c], now)

\* the reading of charger c differs from last_applied_current on some phase
\* and differs from requested_current
ReadingOverrides(c) ==
    /\ Reading(c) # None
    /\ \E p \in Phase :
          Get(Reading(c))[p] # Get(chargers[c].last_applied_current)[p]
    /\ Reading(c) # chargers[c].requested_current

\* C11: outside a new-session reset, a call of detect_manual_override sets
\* requested_current to the reading and flags the override exactly when the
\* reading differs from last_applied_current on some phase and from
\* requested_current; otherwise requested_current and the flag stay.
C11_OverrideOnDualDifference ==
    [][(/\ allocation'.calls = allocation.calls + 1
        /\ ~(adapters[TheCharger].can_charge
             /\ ~chargers[TheCharger].active_session))
          => IF ReadingOverrides(TheCharger)
             THEN /\ chargers'[TheCharger].requested_current = Reading(TheCharger)
                  /\ chargers'[TheCharger].manual_override_detected
             ELSE /\ chargers'[TheCharger].requested_current
                        = chargers[TheCharger].requested_current
                  /\ chargers'[TheCharger].manual_override_detected
                        = chargers[TheCharger].manual_override_detected]_vars

\* C11 witness: after a call, no override flagged although the reading (the
\* adapter's, outside the settle time) differs from last_applied_current: it
\* equals requested_current
C11_Witness ==
    /\ allocation.calls = 1
    /\ chargers[TheCharger].last_update_time = 0
    /\ chargers[TheCharger].active_session
    /\ ~chargers[TheCharger].manual_override_detected
    /\ Reading(TheCharger) # None
    /\ Reading(TheCharger) # chargers[TheCharger].last_applied_current
    /\ Reading(TheCharger) = chargers[TheCharger].requested_current

\* C12: requested_current is on every phase at least the setpoint the load
\* balancer has dispatched (last_applied_current); stated for the states in
\* which a cycle has just dispatched.
C12_RequestedAtLeastApplied ==
    Dispatched =>
        \A p \in Phase :
            Get(chargers[TheCharger].requested_current)[p]
                >= Get(chargers[TheCharger].last_applied_current)[p]

\* C13: a second call of detect_manual_override in succession, with the
\* hardware state and the clock unchanged, leaves every ChargerState field as
\* the first call left it (for a charger whose maximum limit is known).
C13_DetectIdempotent ==
    [][(/\ allocation.calls >= 1 /\ allocation'.calls = allocation.calls + 1
        /\ adapters[TheCharger].max_limit # None)
          => chargers' = chargers]_vars

\* the limit of charger c on phase p when the direct call was made (every
\* charger reports a limit and is outside its settle time)
CurrentOn(c, p) == Get(adapters[c].limit)[p]

\* the value the direct call computed for charger c on phase p: the one in
\* the result, or the unchanged limit of a charger left out of it
ValueOn(c, p) ==
    IF c \in DOMAIN allocation.result THEN allocation.result[c][p]
    ELSE CurrentOn(c, p)

\* the deltas of the direct call
Deltas == Get(allocation.computed_availability)

\* C14: on a phase p with deltas[p] < 0 and T the sum of the active chargers'
\* limits on p, every active charger gets max(0, current + floor(deltas[p] *
\* current / T)) if T > 0, and keeps its limit if T = 0.
C14_ProportionalCutValue ==
    allocation.called =>
        \A p \in DOMAIN Deltas :
            Deltas[p] < 0 =>
                LET active == active_chargers(chargers, adapters)
                    T == SumOver([c \in active |-> CurrentOn(c, p)], active)
                IN  \A c \in active :
                        ValueOn(c, p) =
                            IF T > 0
                            THEN MaxOf(0, CurrentOn(c, p)
                                          + ((Deltas[p] * CurrentOn(c, p)) \div T))
                            ELSE CurrentOn(c, p)

\* the potential of charger c on phase p: max(0, requested - current)
PotentialOn(c, p) ==
    MaxOf(0, Get(chargers[c].requested_current)[p] - CurrentOn(c, p))

\* C15: on a phase p with deltas[p] > 0 and P the sum of the active chargers'
\* potentials on p, every active charger with a potential gets current +
\* floor(min(deltas[p] * potential / P, potential)) if P > 0; if P = 0 no
\* charger is changed on p.
C15_ProportionalIncreaseValue ==
    allocation.called =>
        \A p \in DOMAIN Deltas :
            Deltas[p] > 0 =>
                LET active == active_chargers(chargers, adapters)
                    P == SumOver([c \in active |-> PotentialOn(c, p)], active)
                IN  \A c \in active :
                        ValueOn(c, p) =
                            IF P > 0 /\ PotentialOn(c, p) > 0
                            THEN CurrentOn(c, p)
                                 + MinOf((Deltas[p] * PotentialOn(c, p)) \div P,
                                         PotentialOn(c, p))
                            ELSE CurrentOn(c, p)

\* C16: every setpoint update_allocation returns for a charger with synced
\* phase limits has the same value on L1, L2 and L3.
C16_SyncedSetpointUniform ==
    allocation.called =>
        \A c \in DOMAIN allocation.result :
            adapters[c].synced =>
                \A p, q \in Phase : allocation.result[c][p] = allocation.result[c][q]

\* C16 witness: a setpoint returned for a synced charger in a call with a
\* deficit on one phase and a surplus on another
C16_Witness ==
    /\ allocation.called
    /\ \E c \in DOMAIN allocation.result : adapters[c].synced
    /\ \E p, q \in DOMAIN Deltas : Deltas[p] < 0 /\ Deltas[q] > 0

\* every charger in the result of the direct call differs from its current
\* limit: on some phase, or in the minimum for a charger with synced limits
NoOpsOmitted ==
    allocation.called =>
        \A c \in DOMAIN allocation.result :
            /\ adapters[c].limit # None
            /\ IF adapters[c].synced
               THEN Min({allocation.result[c][p] : p \in Phase})
                      # Min({Get(adapters[c].limit)[p] : p \in Phase})
               ELSE allocation.result[c] # Get(adapters[c].limit)

\* no phase of the direct call is in deficit
NoDeficit == \A p \in DOMAIN Deltas : Deltas[p] >= 0

\* C17 as stated: every charger in the result differs from its current
\* setting, and a call without a deficit that starts with every active charger
\* at its requested_current returns an empty result.
C17_AtRequestedNoProposal ==
    /\ []NoOpsOmitted
    /\ [][(/\ ~allocation.called /\ allocation'.called
           /\ \A p \in DOMAIN Get(allocation'.computed_availability) :
                 Get(allocation'.computed_availability)[p] >= 0
           /\ \A c \in active_chargers(chargers, adapters) :
                 /\ adapters[c].limit # None
                 /\ chargers[c].requested_current = adapters[c].limit)
             => DOMAIN allocation'.result = {}]_vars

\* C17, amended: every charger in the result differs from its current
\* setting, and a call without a deficit returns an empty result when every
\* active charger is at the requested_current the call's own session and
\* override check leaves it with.
C17_NoOpsOmitted ==
    /\ NoOpsOmitted
    /\ (/\ allocation.called
        /\ NoDeficit
        /\ \A c \in active_chargers(chargers, adapters) :
              /\ adapters[c].limit # None
              /\ chargers[c].requested_current = adapters[c].limit)
         => DOMAIN allocation.result = {}

\* C17 witness: a call with a surplus and both chargers active at their
\* requested_current returned nothing
C17_Witness ==
    /\ allocation.called
    /\ \E p \in DOMAIN Deltas : Deltas[p] > 0
    /\ NoDeficit
    /\ active_chargers(chargers, adapters) = AllocChargers
    /\ \A c \in AllocChargers :
          /\ adapters[c].limit # None
          /\ chargers[c].requested_current = adapters[c].limit
    /\ DOMAIN allocation.result = {}

\* C18: with the result of update_allocation applied and the meter showing
\* exactly the new setpoints, the next update_allocation returns an empty
\* result.
C18_ReapplyReturnsNothing ==
    allocation.calls = 2 => DOMAIN allocation.result = {}

\* C19: an update cycle fires the new_charger_limits event exactly once if it
\* dispatches a setpoint, with the setpoint as new_limits, and not at all
\* otherwise.
C19_EventIffDispatched ==
    cycle.ran =>
        IF cycle.set_current_limit # None
        THEN cycle.events = <<Get(cycle.set_current_limit)>>
        ELSE cycle.events = <<>>

\* C19 witness: a cycle dispatched a setpoint that lowers one phase only
C19_Witness ==
    /\ Dispatched
    /\ Len(cycle.events) = 1
    /\ \E p, q \in Phase :
          Get(cycle.set_current_limit)[p] # Get(cycle.set_current_limit)[q]

\* C20: when the set_current_limit write of a dispatched setpoint raises,
\* last_applied_current and last_update_time are not updated to that setpoint.
C20_FailedWriteNotRecorded ==
    [][(cycle'.ran /\ cycle'.set_current_limit # None /\ cycle'.write_raised)
         => /\ chargers'[TheCharger].last_applied_current
                  = chargers[TheCharger].last_applied_current
            /\ chargers'[TheCharger].last_update_time
                  = chargers[TheCharger].last_update_time]_vars

\* C21: a session that starts while the adapter has no maximum to report
\* gets its reset later: after every call of detect_manual_override made with
\* the maximum available, requested_current is the maximum.  (Under
\* SpecSession the session has started before or at the first call, the
\* limit is never changed by hand, and the maximum is unavailable at first.)
C21_DeferredResetCarriedOut ==
    [][(/\ allocation'.calls = allocation.calls + 1
        /\ adapters[TheCharger].max_limit # None)
          => chargers'[TheCharger].requested_current
               = adapters[TheCharger].max_limit]_vars

\* C22: an update cycle in which the adapter reports no limit dispatches
\* nothing: no set_current_limit, no event, and last_applied_current,
\* last_update_time, last_charger_update_time and last_decrease_time stay
\* as they were.
C22_NoLimitNoDispatch ==
    [][(cycle'.ran /\ adapters[TheCharger].limit = None)
         => /\ cycle'.set_current_limit = None
            /\ cycle'.events = <<>>
            /\ chargers'[TheCharger].last_applied_current
                  = chargers[TheCharger].last_applied_current
            /\ chargers'[TheCharger].last_update_time
                  = chargers[TheCharger].last_update_time
            /\ last_charger_update_time' = last_charger_update_time
            /\ last_decrease_time' = last_decrease_time]_vars

\* C22 witness: a cycle got a proposal from the Allocator (which worked from
\* the setpoint written within the settle time) and skipped the charger
\* because the adapter had no limit to report
C22_Witness ==
    /\ cycle.ran
    /\ cycle.monitored
    /\ cycle.allocation_result # None
    /\ cycle.current_limit = None
    /\ adapters[TheCharger].limit = None
    /\ cycle.set_current_limit = None

\* some charger added to the Allocator can charge
SomeChargerCanCharge == \E c \in DOMAIN chargers : adapters[c].can_charge

\* C23: a cycle that gets as far as should_monitor() finds it true exactly
\* when some added charger can charge, and a cycle in which no charger can
\* charge calls neither the Balancer nor the Allocator and dispatches nothing.
C23_MonitorOnlyActive ==
    cycle.ran =>
        /\ cycle.meter_complete => (cycle.monitored <=> SomeChargerCanCharge)
        /\ ~SomeChargerCanCharge =>
              /\ cycle.balancer_calls = 0
              /\ cycle.allocator_calls = 0
              /\ cycle.set_current_limit = None
              /\ cycle.events = <<>>

\* C23 witness: a cycle with a complete meter sample did nothing for a charger
\* that has been updated before and cannot charge any more
C23_Witness ==
    /\ cycle.ran
    /\ cycle.meter_complete
    /\ ~cycle.monitored
    /\ cycle.balancer_calls = 0
    /\ chargers[TheCharger].initialized
    /\ adapters[TheCharger].limit # None
    /\ last_charger_update_time # None

\* the input and the output of the latest Balancer call
Available == Get(allocation.available_currents)
Computed == Get(allocation.computed_availability)

\* the number of samples with an excess in the window of phase p
ExcessSamples(p) ==
    Cardinality({i \in DOMAIN balancer[p] : balancer[p][i].excess > 0})

\* C24: in conservative mode compute_availability returns its input on every
\* live phase, whatever the window of earlier samples holds.
C24_ConservativeOutputIsInput ==
    (allocation.called /\ config.overcurrent_mode = CONSERVATIVE)
        => /\ DOMAIN Computed = available_phases(config)
           /\ \A p \in available_phases(config) : Computed[p] = Available[p]

\* C24 witness: in conservative mode a deficit is surfaced in the second
\* second of an overload, which the window's integral would still tolerate
C24_Witness ==
    /\ allocation.called
    /\ config.overcurrent_mode = CONSERVATIVE
    /\ Available["L1"] < 0
    /\ ExcessSamples("L1") = 2
    /\ integrated_excess(balancer["L1"]) <= phase_threshold(config.fuse_size)
    /\ Computed["L1"] = Available["L1"]

\* C25: in optimised mode a phase with available >= 0 is surfaced as-is; a
\* phase with available < 0 is surfaced as 0 while the excess integrated over
\* the window does not exceed the threshold and as the negative delta once it
\* does.  With a 25 A fuse and a 60 s window, 27 A in its first two seconds
\* yields 0, and 27 A that has persisted for 30 s yields -2 from the next
\* tick on.
C25_OptimisedTolerance ==
    (allocation.called /\ config.overcurrent_mode = OPTIMISED)
        => \A p \in available_phases(config) :
              /\ Available[p] >= 0 => Computed[p] = Available[p]
              /\ Available[p] < 0 =>
                    /\ Computed[p] =
                          IF integrated_excess(balancer[p])
                                > phase_threshold(config.fuse_size)
                          THEN Available[p] ELSE 0
                    /\ ExcessSamples(p) <= 2 => Computed[p] = 0
                    /\ ExcessSamples(p) > 30 => Computed[p] = -2

\* C25 witness: the overload has persisted for 30 s and the next tick
\* surfaces -2
C25_Witness ==
    /\ allocation.called
    /\ config.overcurrent_mode = OPTIMISED
    /\ Available["L1"] = -2
    /\ ExcessSamples("L1") = 31
    /\ Computed["L1"] = -2

\* the map the latest direct call of set_current_limit was given, and the
\* value the limit entity holds after it
GivenLimit == Get(cycle.set_current_limit)
WrittenValue == Get(adapters[TheCharger].limit)["L1"]

\* C26: set_current_limit writes no value above the charger's maximum.
C26_WriteClampedToMaximum ==
    (allocation.called /\ cycle.set_current_limit # None)
        => WrittenValue <= Get(adapters[TheCharger].max_limit)["L1"]

\* C27: set_current_limit writes the minimum over the phases of the map it
\* is given, whatever phases the map has.
C27_WritesMinimumOfInput ==
    (allocation.called /\ cycle.set_current_limit # None)
        => /\ \A p \in DOMAIN GivenLimit : WrittenValue <= GivenLimit[p]
           /\ \E p \in DOMAIN GivenLimit : WrittenValue = GivenLimit[p]
           /\ adapters[TheCharger].limit = Some(FromKeys(WrittenValue))

\* C27 witness: a map over two phases with L1 absent and the smaller value
\* on the later phase
C27_Witness ==
    /\ allocation.called
    /\ cycle.set_current_limit # None
    /\ DOMAIN GivenLimit = {"L2", "L3"}
    /\ GivenLimit["L3"] < GivenLimit["L2"]
    /\ WrittenValue = GivenLimit["L3"]

\* the per-phase values the direct call computed before the flattening; the
\* loop reads the chargers' limits and requested currents, which the rest of
\* the call leaves as they are
PerPhaseValues == distribute_phases(Deltas, chargers, adapters, now)

\* the flattened value of charger c: the one in the result, or the unchanged
\* limit of a charger the filter left out
Flattened(c) ==
    IF c \in DOMAIN allocation.result THEN allocation.result[c]["L1"]
    ELSE Get(get_current_limit(chargers[c], adapters[c], now))["L1"]

NonZeroPhases == {p \in DOMAIN Deltas : Deltas[p] # 0}

\* C28 as stated: the flattened value of a synced charger is the minimum over
\* the phases with a non-zero delta.
C28_MinimumOverNonZeroDeltas ==
    allocation.called =>
        \A c \in DOMAIN PerPhaseValues :
            adapters[c].synced =>
                Flattened(c) = Min({PerPhaseValues[c][p] : p \in NonZeroPhases})

\* C28: the flattened value of a synced charger is the minimum over the live
\* phases, the keys of the deltas; a live phase whose delta is 0 takes part
\* with the charger's current limit, a phase that is not live does not.
C28_MinimumOverLivePhases ==
    allocation.called =>
        \A c \in DOMAIN PerPhaseValues :
            adapters[c].synced =>
                Flattened(c) = Min({PerPhaseValues[c][p] : p \in DOMAIN Deltas})

\* C28 witness: a synced charger raised on every phase with a surplus and
\* held at its limit by a live phase whose delta is 0
C28_Witness ==
    /\ allocation.called
    /\ \E c \in DOMAIN PerPhaseValues :
          /\ adapters[c].synced
          /\ \E p \in DOMAIN Deltas : Deltas[p] = 0
          /\ NonZeroPhases # {}
          /\ \A p \in NonZeroPhases : PerPhaseValues[c][p] > Flattened(c)
          /\ c \notin DOMAIN allocation.result

\* the cycle that ends at now' called update_allocation within the settle
\* time of the setpoint last dispatched to the charger
ShieldedCycle ==
    /\ cycle'.monitored
    /\ chargers[TheCharger].last_update_time > 0
    /\ now' - chargers[TheCharger].last_update_time < adapters[TheCharger].settle

\* the cycle that ends at now' called update_allocation after the settle time
UnshieldedCycle ==
    /\ cycle'.monitored
    /\ chargers[TheCharger].last_update_time > 0
    /\ now' - chargers[TheCharger].last_update_time >= adapters[TheCharger].settle

\* a charging session starts in the cycle
SessionStarts ==
    adapters[TheCharger].can_charge /\ ~chargers[TheCharger].active_session

\* setpoint s is a change of limit l for the charger
ChangeOf(s, l) ==
    IF adapters[TheCharger].synced
    THEN Min({s[p] : p \in Phase}) # Min({l[p] : p \in Phase})
    ELSE \E p \in Phase : s[p] # l[p]

\* C29: within the settle time of a dispatch, override detection and
\* allocation work from last_applied_current whatever the adapter reports:
\* no override is recorded and a proposal is a change of last_applied_current;
\* after the settle time they work from the adapter's reading: a reading
\* that differs from last_applied_current and requested_current becomes the
\* requested current, and with no reading nothing is proposed.
C29_SettleTimeShield ==
    [][/\ ShieldedCycle =>
            /\ ~SessionStarts =>
                  /\ chargers'[TheCharger].requested_current
                        = chargers[TheCharger].requested_current
                  /\ chargers'[TheCharger].manual_override_detected
                        => chargers[TheCharger].manual_override_detected
            /\ cycle'.allocation_result # None =>
                  ChangeOf(Get(cycle'.allocation_result),
                           Get(chargers[TheCharger].last_applied_current))
       /\ UnshieldedCycle =>
            IF adapters[TheCharger].limit = None
            THEN /\ cycle'.allocation_result = None
                 /\ chargers'[TheCharger] = chargers[TheCharger]
            ELSE /\ (/\ ~SessionStarts
                     /\ adapters[TheCharger].limit
                           # chargers[TheCharger].last_applied_current
                     /\ adapters[TheCharger].limit
                           # chargers[TheCharger].requested_current)
                       => chargers'[TheCharger].requested_current
                             = adapters[TheCharger].limit
                 /\ cycle'.allocation_result # None =>
                       ChangeOf(Get(cycle'.allocation_result),
                                Get(adapters[TheCharger].limit))]_vars

\* C29 witness: a cycle within the settle time of an earlier dispatch, with
\* the adapter reporting a limit that is neither the dispatched setpoint nor
\* the requested current, and no override recorded
C29_Witness ==
    /\ cycle.monitored
    /\ cycle.set_current_limit = None
    /\ chargers[TheCharger].last_update_time > 0
    /\ now - chargers[TheCharger].last_update_time < adapters[TheCharger].settle
    /\ adapters[TheCharger].limit # None
    /\ cycle.current_limit = adapters[TheCharger].limit
    /\ adapters[TheCharger].limit # chargers[TheCharger].last_applied_current
    /\ adapters[TheCharger].limit # chargers[TheCharger].requested_current
    /\ ~chargers[TheCharger].manual_override_detected

\* C30 as stated: an update cycle in which the adapter of an uninitialised
\* charger reports a limit initialises the charger.
C30_InitialisedAtFirstReading ==
    [][(/\ cycle'.ran
        /\ ~chargers[TheCharger].initialized
        /\ adapters[TheCharger].limit # None)
         => chargers'[TheCharger].initialized]_vars

\* the ChargerState as initialize() leaves an uninitialised one on a reading
InitializedFrom(state, charger) ==
    [state EXCEPT !.requested_current = charger.limit,
                  !.last_applied_current = charger.limit,
                  !.active_session = charger.can_charge,
                  !.initialized = TRUE]

\* C30: a direct call of initialize() on an uninitialised ChargerState changes
\* nothing when the adapter has no limit and otherwise sets requested_current
\* and last_applied_current to the reading, active_session to can_charge()
\* and initialized; on an initialised one it changes nothing.  A charger
\* stays uninitialised until initialize() is called with a reading, which an
\* update cycle does only when it reaches update_allocation (complete meter
\* sample, the charger can charge), and it is initialised from then on.
C30_LazyInitialisation ==
    [][/\ chargers[TheCharger].initialized => chargers'[TheCharger].initialized
       /\ IF allocation'.calls # allocation.calls
          THEN chargers'[TheCharger] =
                 IF chargers[TheCharger].initialized
                    \/ adapters[TheCharger].limit = None
                 THEN chargers[TheCharger]
                 ELSE InitializedFrom(chargers[TheCharger], adapters[TheCharger])
          ELSE IF cycle'.ran
          THEN ~chargers[TheCharger].initialized =>
                 IF cycle'.monitored /\ adapters[TheCharger].limit # None
                 THEN chargers'[TheCharger] =
                        [InitializedFrom(chargers[TheCharger], adapters[TheCharger])
                           EXCEPT !.last_applied_current =
                                     IF cycle'.set_current_limit # None
                                     THEN cycle'.set_current_limit ELSE @,
                                  !.last_update_time =
                                     IF cycle'.set_current_limit # None
                                     THEN now' ELSE @,
                                  !.last_calculated_current =
                                     cycle'.allocation_result]
                 ELSE chargers'[TheCharger] = chargers[TheCharger]
          ELSE chargers' = chargers]_vars

\* C30 witness: a charger initialised on the adapter's reading, never written
\* to, after direct calls of initialize() and an update cycle that reached
\* update_allocation
C30_Witness ==
    /\ chargers[TheCharger].initialized
    /\ allocation.calls = MaxCalls
    /\ cycle.monitored
    /\ chargers[TheCharger].last_update_time = 0
    /\ adapters[TheCharger].limit # None
    /\ chargers[TheCharger].requested_current = adapters[TheCharger].limit
    /\ chargers[TheCharger].last_applied_current = adapters[TheCharger].limit

\* the cycle that ends at now' dispatched a setpoint
DispatchedNext == cycle'.ran /\ cycle'.set_current_limit # None

\* the setpoint dispatched in the cycle that ends at now' is lower on some
\* phase than the limit the adapter reported
LoweredNext ==
    \E p \in Phase :
        Get(cycle'.set_current_limit)[p] < Get(adapters[TheCharger].limit)[p]

\* C31: last_decrease_time changes only in a cycle that dispatches a setpoint
\* with a phase below the charger's current limit, and is then that cycle's
\* time; a dispatch that lowers no phase leaves it as it was.
C31_DecreaseTimeOnlyOnDecrease ==
    [][/\ last_decrease_time' # last_decrease_time
            => DispatchedNext /\ LoweredNext
       /\ (DispatchedNext /\ LoweredNext) => last_decrease_time' = Some(now')
       /\ (DispatchedNext /\ ~LoweredNext)
            => last_decrease_time' = last_decrease_time]_vars

\* C31 witness: an increase dispatched after an earlier decrease and a later
\* dispatch, which left the decrease time alone: the second increase in a
\* row, more than the minimum delay after the first
C31_Witness ==
    /\ Dispatched
    /\ ~ProposalLowers
    /\ ProposalRaises
    /\ last_decrease_time # None
    /\ cycle.seen_decrease_time = last_decrease_time
    /\ cycle.seen_update_time # None
    /\ Get(cycle.seen_update_time) > Get(last_decrease_time)
    /\ last_charger_update_time = Some(now)

\* after the step the three records of the dispatch are those of setpoint s
\* dispatched at time t
RecordedNext(s, t) ==
    /\ chargers'[TheCharger].last_applied_current = s
    /\ chargers'[TheCharger].last_update_time = t
    /\ last_charger_update_time' = Some(t)

\* the step leaves last_update_time and last_charger_update_time as they were
TimesKept ==
    /\ chargers'[TheCharger].last_update_time = chargers[TheCharger].last_update_time
    /\ last_charger_update_time' = last_charger_update_time

AppliedKept ==
    chargers'[TheCharger].last_applied_current
        = chargers[TheCharger].last_applied_current

\* after the step the two update times agree: both unset, or the same time
TimesAgreeNext ==
    IF last_charger_update_time' = None
    THEN chargers'[TheCharger].last_update_time = 0
    ELSE chargers'[TheCharger].last_update_time = Get(last_charger_update_time')

\* C32 as stated: a cycle that dispatches s at time t leaves last_applied_current
\* = s, last_update_time = t and last_charger_update_time = t; every other
\* step leaves the three as they were.
C32_RecordsOnlyOnDispatch ==
    [][IF DispatchedNext
       THEN RecordedNext(cycle'.set_current_limit, now')
       ELSE TimesKept /\ AppliedKept]_vars

\* C32: a cycle that dispatches s at time t leaves last_applied_current = s,
\* last_update_time = t and last_charger_update_time = t; every other step
\* leaves the two times as they were, and last_applied_current too unless it
\* is the cycle that initialises the ChargerState, which sets it to the
\* adapter's reading; the two times agree after every step.
C32_RecordsTogether ==
    [][/\ IF DispatchedNext
          THEN RecordedNext(cycle'.set_current_limit, now')
          ELSE /\ TimesKept
               /\ IF ~chargers[TheCharger].initialized
                     /\ chargers'[TheCharger].initialized
                  THEN chargers'[TheCharger].last_applied_current
                          = adapters[TheCharger].limit
                  ELSE AppliedKept
       /\ TimesAgreeNext]_vars

\* C32 witness: a second dispatch, of a setpoint other than the limit the
\* adapter reported, recorded with the time of its cycle
C32_Witness ==
    /\ Dispatched
    /\ cycle.seen_update_time # None
    /\ cycle.set_current_limit # cycle.current_limit
    /\ chargers[TheCharger].last_applied_current = cycle.set_current_limit
    /\ chargers[TheCharger].last_update_time = now
    /\ last_charger_update_time = Some(now)

\* the cycle that ends at now' passes the meter check and the monitoring check
PassesChecksNext ==
    cycle'.ran /\ cycle'.meter_complete /\ should_monitor(chargers, adapters)

\* what update_allocation returns for the charger on the Balancer's output
\* of the cycle that ends at now'
ProposalOnBalancerOutput ==
    LET result == update_allocation(Get(allocation'.computed_availability),
                                    chargers, adapters, now').result
    IN  IF TheCharger \in DOMAIN result THEN Some(result[TheCharger]) ELSE None

\* C33: every update cycle that passes the meter check and the monitoring
\* check calls the Balancer once and the Allocator once, the Allocator's
\* proposal is the one for the Balancer's output, and at most one setpoint,
\* that proposal, is written; also when the availability is that of the
\* cycle before.
C33_OneBalancerOneAllocatorCall ==
    [][PassesChecksNext =>
         /\ cycle'.balancer_calls = 1
         /\ cycle'.allocator_calls = 1
         /\ cycle'.allocation_result = ProposalOnBalancerOutput
         /\ cycle'.set_current_limit \in {None, cycle'.allocation_result}
         /\ Len(cycle'.events) <= 1]_vars

\* C33 witness: a cycle that called both, on the same availability as the
\* cycle before, in which the Balancer tolerated a deficit so that nothing
\* was proposed
C33_Witness ==
    /\ cycle.ran
    /\ cycle.balancer_calls = 1
    /\ cycle.allocator_calls = 1
    /\ allocation.calls = MaxCalls
    /\ allocation.computed_availability # None
    /\ allocation.computed_availability # allocation.available_currents
    /\ cycle.allocation_result = None

\* _get_available_currents was called directly on the meter's readings as
\* they are now, and returned a map
Sampled == allocation.called /\ allocation.available_currents # None

\* C34: on every live phase the availability is the fuse size less the
\* meter's reading, and the fuse size if that is more; it never exceeds the
\* fuse size and is negative exactly when the reading exceeds the fuse size.
C34_AvailabilityClamped ==
    Sampled =>
        \A p \in DOMAIN Available :
            LET reading == Get(readings[p])
                headroom == config.fuse_size - reading
            IN  /\ Available[p] = IF headroom < config.fuse_size THEN headroom
                                  ELSE config.fuse_size
                /\ Available[p] <= config.fuse_size
                /\ Available[p] < 0 <=> reading > config.fuse_size

\* C34 witness: a 3-phase sample with net export on one phase and an
\* overload on another
C34_Witness ==
    /\ Sampled
    /\ \E p, q \in DOMAIN Available :
          /\ Get(readings[p]) < 0
          /\ Available[p] = config.fuse_size
          /\ Get(readings[q]) > config.fuse_size
          /\ Available[q] < 0

\* the first phase_count phases of (L1, L2, L3)
FirstPhases == {PhaseOrder[i] : i \in 1..config.phase_count}

\* C35: the sampling reads the meter on the first phase_count phases only: it
\* returns nothing if and only if one of those has no reading, and otherwise
\* a map whose keys are exactly those phases.
C35_OnlyLivePhasesSampled ==
    allocation.called =>
        IF \E p \in FirstPhases : readings[p] = None
        THEN allocation.available_currents = None
        ELSE /\ allocation.available_currents # None
             /\ DOMAIN Available = FirstPhases

\* C35 witness: a 1-phase deployment sampled while the meter has no reading
\* on L2 and an overload on L3
C35_Witness ==
    /\ Sampled
    /\ config.phase_count = 1
    /\ readings["L2"] = None
    /\ readings["L3"] # None
    /\ Get(readings["L3"]) > config.fuse_size
    /\ DOMAIN Available = {"L1"}

\* the chargers that can charge, and the sum of their limits on phase p
ActiveChargers == active_chargers(chargers, adapters)
TotalOn(p) == SumOver([c \in ActiveChargers |-> CurrentOn(c, p)], ActiveChargers)

\* C36: on a phase p with deltas[p] < 0 and a total T > 0 of the active
\* chargers' limits, the values after the cut add up to at most
\* max(0, T + deltas[p]), and every active charger with a positive limit on p
\* gets at least 1 A less on p.
C36_CutsCoverDeficit ==
    allocation.called =>
        \A p \in DOMAIN Deltas :
            (Deltas[p] < 0 /\ TotalOn(p) > 0) =>
                /\ SumOver([c \in ActiveChargers |-> ValueOn(c, p)], ActiveChargers)
                      <= MaxOf(0, TotalOn(p) + Deltas[p])
                /\ \A c \in ActiveChargers :
                      CurrentOn(c, p) > 0 => ValueOn(c, p) <= CurrentOn(c, p) - 1

\* C36 witness: two active chargers with different limits cut on L1 by a
\* deficit that does not divide evenly, the cuts together exceeding it
C36_Witness ==
    /\ allocation.called
    /\ "L1" \in DOMAIN Deltas
    /\ Deltas["L1"] < 0
    /\ ActiveChargers = AllocChargers
    /\ 0 < CurrentOn("c1", "L1")
    /\ CurrentOn("c1", "L1") < CurrentOn("c2", "L1")
    /\ 0 < ValueOn("c1", "L1")
    /\ ValueOn("c1", "L1") + ValueOn("c2", "L1") < TotalOn("L1") + Deltas["L1"]

\* update_allocation has been called on a surplus and some active charger
\* is below its requested current on L1
BelowRequested ==
    /\ allocation.called
    /\ \E c \in ActiveChargers :
          CurrentOn(c, "L1") < Get(chargers[c].requested_current)["L1"]

\* the result of the latest call raises some charger on L1
RaisedOnSurplus ==
    \E c \in DOMAIN allocation.result :
        allocation.result[c]["L1"] > CurrentOn(c, "L1")

\* C37: with a surplus on L1 in every cycle, whenever some active charger is
\* below its requested current on L1, update_allocation eventually returns a
\* setpoint that raises some charger on L1 (or no charger is below its
\* requested current any more).
C37_SurplusEventuallyGranted ==
    BelowRequested ~> (RaisedOnSurplus \/ ~BelowRequested)

\* C38: a call of update_allocation while no charger can charge returns an
\* empty result and leaves every ChargerState as it was.
C38_NoActiveChargerNoChange ==
    [][(/\ allocation'.calls = allocation.calls + 1
        /\ ActiveChargers = {})
         => /\ DOMAIN allocation'.result = {}
            /\ chargers' = chargers]_vars

\* C38 witness: update_allocation was called on a deficit while no charger
\* could charge; a charger whose adapter reports a limit is still
\* uninitialised and the other is still recorded as in a session
C38_Witness ==
    /\ allocation.called
    /\ ActiveChargers = {}
    /\ \E p \in DOMAIN Deltas : Deltas[p] < 0
    /\ ~chargers["c1"].initialized
    /\ adapters["c1"].limit # None
    /\ chargers["c2"].active_session
    /\ DOMAIN allocation.result = {}

----------------------------------------------------------------------------
(* C39 *)

\* a set_current_limit task completes in this step
TaskCompletesNext == Len(tasks'.in_flight) < Len(tasks.in_flight)

\* the task completing in this step was created after the one that completed
\* before it
InDispatchOrderNext ==
    tasks.landed # None => Get(tasks'.landed) > Get(tasks.landed)

\* C39: the write of an earlier dispatch never takes effect on the charger
\* after the write of a later one, and when the last write in flight has
\* completed the charger holds the setpoint of the last dispatch, the one
\* recorded in last_applied_current.
C39_WritesLandInDispatchOrder ==
    [][TaskCompletesNext =>
          /\ InDispatchOrderNext
          /\ tasks'.in_flight = <<>> =>
                 adapters'[TheCharger].limit =
                     chargers'[TheCharger].last_applied_current]_vars

----------------------------------------------------------------------------
(* C40 *)

\* update_applied_current is called in this step with an id the Allocator
\* does not have
UnknownIdCalledNext ==
    /\ allocation'.calls = allocation.calls + 1
    /\ Get(allocation'.charger_id) \notin DOMAIN chargers

\* C40: update_applied_current called with a charger id that is not in the
\* Allocator logs a warning and returns without raising and without changing
\* any ChargerState.
C40_UnknownIdWarnsAndReturns ==
    [][UnknownIdCalledNext =>
          /\ allocation'.warned
          /\ ~allocation'.raised
          /\ chargers' = chargers]_vars

====
